---- MODULE Spec2Model ----
(***************************************************************************)
(* A model of the BFF++ artificial-life simulator: the two-headed          *)
(* byte-machine (emulate), its token-tagged variant (emulate_w_tracer),    *)
(* the grid's spatial pairing (create_spatial_pairs) and the parallel      *)
(* epoch driver (main_grid, main_grid_w_tracer, main_darwin).              *)
(***************************************************************************)
EXTENDS Integers, Sequences, FiniteSets, TLC

VARIABLES
    em,         \* emulate: its locals (tape, heads, pc, iteration, skipped, state)
    tr,         \* emulate_w_tracer: its locals, the tape a vector of Token
    max_iter,   \* the max_iter argument both calls are given
    args,       \* the caller's arguments: tape_bytes, tape_tokens, heads, pc
    width,      \* Grid::width
    height,     \* Grid::height
    radius,     \* create_spatial_pairs: neighborhood_radius
    cell_order, \* create_spatial_pairs: the shuffled cell indices
    taken,      \* create_spatial_pairs: taken[c]
    pairs,      \* create_spatial_pairs: the records emitted so far
    visit,      \* create_spatial_pairs: how many cells of cell_order were visited
    pstage,     \* create_spatial_pairs: idle, shuffle, visiting or returned
    config,     \* the driver that runs and its Config
    num_threads,\* the epoch's num_threads
    grid_data,  \* Grid::grid_data, GridWithTracer::grid_data
    epoch,      \* the epoch loop's counter
    soup,       \* the epoch's copy of the population
    results,    \* the epoch's results vector
    threads,    \* the threads started and not yet joined, oldest first
    workers,    \* per record: how far its thread is, and the thread's tape
    main_pc,    \* where the main thread is in the epoch loop
    idx,        \* the index i of the dispatch loop and of the process loop
    epoch_input,\* history: grid_data as the epoch found it
    draws,      \* history: what each call of mutate drew, in call order
    mutations,  \* history: how many bytes mutation has replaced in the run
    rng_used,   \* history: the generators the run has drawn from
    paused,     \* WebSocketServer::paused
    client_sockets, \* WebSocketServer::client_sockets
    handlers,   \* the sockets whose handle_client thread is in its message loop
    conn,       \* per socket descriptor: the state of its connection
    delivered,  \* history: per socket, the frames send has accepted for it
    broadcasts, \* history: the calls of broadcast so far
    server_alive, \* FALSE once a signal has ended the process
    running,    \* WebSocketServer::running
    closes,     \* history: per socket descriptor, the calls of close since accept returned it
    fp,         \* find_replicators: its arguments and locals
    fp_log,     \* history: the calls of check_replicator, the reads that failed
    sbs         \* test_epoch_by_epoch: the locals of main

emuVars == <<em, tr, max_iter, args>>

pairVars == <<width, height, radius, cell_order, taken, pairs, visit, pstage>>

gridVars ==
    <<config, num_threads, grid_data, epoch, soup, results, threads, workers, main_pc, idx,
      epoch_input, draws, mutations, rng_used>>

serverVars ==
    <<paused, client_sockets, handlers, conn, delivered, broadcasts, server_alive, running,
      closes>>

fpVars == <<fp, fp_log>>

sbsVars == <<sbs>>

notFpVars == <<emuVars, pairVars, gridVars, serverVars, sbsVars>>

notSbsVars == <<emuVars, pairVars, gridVars, serverVars, fpVars>>

vars == <<emuVars, pairVars, gridVars, serverVars, fpVars, sbsVars>>

(***************************************************************************)
(* Bytes.  A byte is an integer in 0..255; the instruction characters are  *)
(* their ASCII codes.                                                      *)
(***************************************************************************)
ch_lt == 60
ch_gt == 62
ch_lbrace == 123
ch_rbrace == 125
ch_minus == 45
ch_plus == 43
ch_dot == 46
ch_comma == 44
open_bracket == 91
close_bracket == 93
zero == 48

instructions ==
    {ch_lt, ch_gt, ch_lbrace, ch_rbrace, ch_minus, ch_plus, ch_dot, ch_comma,
     open_bracket, close_bracket}

\* The conversion of an int to uint8_t.
U8(x) == x % 256

\* No remainder is taken.
CRem_Identity(a, b) == a

\* The C++ % on ints: the remainder of the division truncated towards zero.
CRem(a, b) == IF a >= 0 THEN a % b ELSE -((-a) % b)

\* v[i] of a std::vector, i counted from 0.
At(v, i) == v[i + 1]

\* The elements of a vector.
Elements(v) == {v[i] : i \in DOMAIN v}

\* v with v[i] = x, i counted from 0.
Put(v, i, x) == [v EXCEPT ![i + 1] = x]

STATE_TERMINATED == "Terminated"
STATE_FINISHED == "Finished"
STATE_UNMATCHED_OPEN == "Error, Unmatched ["
STATE_UNMATCHED_CLOSE == "Error, Unmatched ]"
STATE_RUNNING == "Running"

ResultStates ==
    {STATE_FINISHED, STATE_TERMINATED, STATE_UNMATCHED_OPEN, STATE_UNMATCHED_CLOSE}

(***************************************************************************)
(* emulate (src/emulator.cpp).  A machine record m holds the function's    *)
(* locals; m.returned says the function has returned, and the record is    *)
(* then the EmulatorResult (tape, state, iteration, skipped).              *)
(***************************************************************************)

\* The forward scan of '[' without the diff++ on a '['.
RECURSIVE ScanForward_FirstClose(_, _, _)
ScanForward_FirstClose(tape, i, diff) ==
    IF i >= Len(tape) THEN [diff |-> diff, i |-> i]
    ELSE LET d == IF At(tape, i) = close_bracket THEN diff - 1 ELSE diff
         IN  IF d = 0 THEN [diff |-> 0, i |-> i]
             ELSE ScanForward_FirstClose(tape, i + 1, d)

\* The forward scan of '[': for (i = pc_pos + 1; i < tape_size; i++).
\* Yields the diff the loop ends with and the i it broke at.
RECURSIVE ScanForward(_, _, _)
ScanForward(tape, i, diff) ==
    IF i >= Len(tape) THEN [diff |-> diff, i |-> i]
    ELSE LET d == IF At(tape, i) = open_bracket THEN diff + 1
                  ELSE IF At(tape, i) = close_bracket THEN diff - 1
                  ELSE diff
         IN  IF d = 0 THEN [diff |-> 0, i |-> i]
             ELSE ScanForward(tape, i + 1, d)

\* The backward scan of ']': for (i = pc_pos - 1; i >= 0; i--).
RECURSIVE ScanBackward(_, _, _)
ScanBackward(tape, i, diff) ==
    IF i < 0 THEN [diff |-> diff, i |-> i]
    ELSE LET d == IF At(tape, i) = close_bracket THEN diff + 1
                  ELSE IF At(tape, i) = open_bracket THEN diff - 1
                  ELSE diff
         IN  IF d = 0 THEN [diff |-> 0, i |-> i]
             ELSE ScanBackward(tape, i - 1, d)

\* emulate entered with the state the tracer variant starts from.
EmulateEntry_Running(tape, head0_pos, head1_pos, pc_pos) ==
    [tape |-> tape, head0_pos |-> head0_pos, head1_pos |-> head1_pos,
     pc_pos |-> pc_pos, iteration |-> 0, skipped |-> 0,
     state |-> STATE_RUNNING, returned |-> FALSE]

\* The state of emulate on entry.
EmulateEntry(tape, head0_pos, head1_pos, pc_pos) ==
    [tape |-> tape, head0_pos |-> head0_pos, head1_pos |-> head1_pos,
     pc_pos |-> pc_pos, iteration |-> 0, skipped |-> 0,
     state |-> STATE_TERMINATED, returned |-> FALSE]

\* The end of the loop body: iteration++, pc_pos++, the Finished test.
EmulateAdvance(m) ==
    LET pc == m.pc_pos + 1
    IN  IF pc >= Len(m.tape)
        THEN [m EXCEPT !.iteration = @ + 1, !.pc_pos = pc,
                       !.state = STATE_FINISHED, !.returned = TRUE]
        ELSE [m EXCEPT !.iteration = @ + 1, !.pc_pos = pc]

\* The '[' branch with pc_pos = i assigned in the scan before the test of diff.
EmulateOpen_MovesPc(m) ==
    IF At(m.tape, m.head0_pos) = zero
    THEN LET s == ScanForward(m.tape, m.pc_pos + 1, 1)
         IN  IF s.diff # 0
             THEN [m EXCEPT !.pc_pos = s.i - 1,
                            !.state = STATE_UNMATCHED_OPEN, !.returned = TRUE]
             ELSE EmulateAdvance([m EXCEPT !.pc_pos = s.i])
    ELSE EmulateAdvance(m)

\* The '[' branch.
EmulateOpen(m) ==
    IF At(m.tape, m.head0_pos) = zero
    THEN LET s == ScanForward(m.tape, m.pc_pos + 1, 1)
         IN  IF s.diff # 0
             THEN [m EXCEPT !.state = STATE_UNMATCHED_OPEN, !.returned = TRUE]
             ELSE EmulateAdvance([m EXCEPT !.pc_pos = s.i])
    ELSE EmulateAdvance(m)

\* The ']' branch.
EmulateClose(m) ==
    IF At(m.tape, m.head0_pos) # zero
    THEN LET s == ScanBackward(m.tape, m.pc_pos - 1, 1)
         IN  IF s.diff # 0
             THEN [m EXCEPT !.state = STATE_UNMATCHED_CLOSE, !.returned = TRUE]
             ELSE EmulateAdvance([m EXCEPT !.pc_pos = s.i])
    ELSE EmulateAdvance(m)

\* The branches with '<' and '{' computed as (head - 1) % tape_size.
EmulateSimple_NoBias(m) ==
    LET n == Len(m.tape)
        instr == At(m.tape, m.pc_pos)
    IN  CASE instr = ch_lt -> [m EXCEPT !.head0_pos = CRem(@ - 1, n)]
          [] instr = ch_gt -> [m EXCEPT !.head0_pos = CRem(@ + 1, n)]
          [] instr = ch_lbrace -> [m EXCEPT !.head1_pos = CRem(@ - 1, n)]
          [] instr = ch_rbrace -> [m EXCEPT !.head1_pos = CRem(@ + 1, n)]
          [] instr = ch_minus ->
                [m EXCEPT !.tape = Put(@, m.head0_pos,
                                       U8(CRem(At(@, m.head0_pos) - 1, 256)))]
          [] instr = ch_plus ->
                [m EXCEPT !.tape = Put(@, m.head0_pos,
                                       U8(CRem(At(@, m.head0_pos) + 1, 256)))]
          [] instr = ch_dot ->
                [m EXCEPT !.tape = Put(@, m.head1_pos, At(@, m.head0_pos))]
          [] instr = ch_comma ->
                [m EXCEPT !.tape = Put(@, m.head0_pos, At(@, m.head1_pos))]
          [] OTHER -> [m EXCEPT !.skipped = @ + 1]

\* The branches that neither jump nor fail, before the end of the body.
EmulateSimple(m) ==
    LET n == Len(m.tape)
        instr == At(m.tape, m.pc_pos)
    IN  CASE instr = ch_lt -> [m EXCEPT !.head0_pos = CRem(@ - 1 + n, n)]
          [] instr = ch_gt -> [m EXCEPT !.head0_pos = CRem(@ + 1, n)]
          [] instr = ch_lbrace -> [m EXCEPT !.head1_pos = CRem(@ - 1 + n, n)]
          [] instr = ch_rbrace -> [m EXCEPT !.head1_pos = CRem(@ + 1, n)]
          [] instr = ch_minus ->
                [m EXCEPT !.tape = Put(@, m.head0_pos,
                                       U8(CRem(At(@, m.head0_pos) - 1, 256)))]
          [] instr = ch_plus ->
                [m EXCEPT !.tape = Put(@, m.head0_pos,
                                       U8(CRem(At(@, m.head0_pos) + 1, 256)))]
          [] instr = ch_dot ->
                [m EXCEPT !.tape = Put(@, m.head1_pos, At(@, m.head0_pos))]
          [] instr = ch_comma ->
                [m EXCEPT !.tape = Put(@, m.head0_pos, At(@, m.head1_pos))]
          [] OTHER -> [m EXCEPT !.skipped = @ + 1]

\* The loop with while (iteration <= max_iter).
EmulateIter_LoopLE(m, mi) ==
    IF ~(m.iteration <= mi) THEN [m EXCEPT !.returned = TRUE]
    ELSE LET instr == At(m.tape, m.pc_pos)
         IN  IF instr = open_bracket THEN EmulateOpen(m)
             ELSE IF instr = close_bracket THEN EmulateClose(m)
             ELSE EmulateAdvance(EmulateSimple(m))

\* One evaluation of while (iteration < max_iter) and, when it holds, of the body.
EmulateIter(m, mi) ==
    IF ~(m.iteration < mi) THEN [m EXCEPT !.returned = TRUE]
    ELSE LET instr == At(m.tape, m.pc_pos)
         IN  IF instr = open_bracket THEN EmulateOpen(m)
             ELSE IF instr = close_bracket THEN EmulateClose(m)
             ELSE EmulateAdvance(EmulateSimple(m))

(***************************************************************************)
(* Token (include/emulator_w_tracer.h): 64 bits packed as epoch (bits      *)
(* 24-63), position (bits 8-23) and char (bits 0-7), held here as the      *)
(* three bit fields.  The epochs of the model stay far below 2^40, so the  *)
(* shift of the constructor loses no bit of them.                          *)
(***************************************************************************)
Token(ep, position, character) ==
    [epoch |-> ep, position |-> position % 65536, char |-> U8(character)]

get_char(t) == t.char

get_position(t) == t.position

get_epoch(t) == t.epoch

\* set_char with the mask 0xFF00: the bits above the low byte of position are lost.
set_char_ShortMask(t, character) ==
    [epoch |-> 0, position |-> t.position % 256, char |-> U8(character)]

\* value = (value & 0xFFFFFFFFFFFFFF00) | character, character a uint8_t.
set_char(t, character) == [t EXCEPT !.char = U8(character)]

\* initialize_tokens_with_epoch with the positions counted from 1.
initialize_tokens_with_epoch_FromOne(byte_tape, ep) ==
    [i \in 1..Len(byte_tape) |-> Token(ep, i, byte_tape[i])]

initialize_tokens_with_epoch(byte_tape, ep) ==
    [i \in 1..Len(byte_tape) |-> Token(ep, i - 1, byte_tape[i])]

initialize_tokens(byte_tape) == initialize_tokens_with_epoch(byte_tape, 0)

tokens_to_bytes(token_tape) ==
    [i \in 1..Len(token_tape) |-> get_char(token_tape[i])]

(***************************************************************************)
(* emulate_w_tracer (src/emulator_w_tracer.cpp).                           *)
(***************************************************************************)
Max(a, b) == IF a >= b THEN a ELSE b

Min(a, b) == IF a <= b THEN a ELSE b

\* The state of emulate_w_tracer after its bounds checking.
TracerEntry(tape, head0_pos, head1_pos, pc_pos) ==
    LET n == Len(tape)
    IN  [tape |-> tape,
         head0_pos |-> Max(0, Min(head0_pos, n - 1)),
         head1_pos |-> Max(0, Min(head1_pos, n - 1)),
         pc_pos |-> Max(0, Min(pc_pos, n - 1)),
         iteration |-> 0, skipped |-> 0,
         state |-> STATE_RUNNING, returned |-> FALSE]

\* The forward scan of case '[', on the char part of the tokens.
RECURSIVE TracerScanForward(_, _, _)
TracerScanForward(tape, i, depth) ==
    IF i >= Len(tape) THEN [depth |-> depth, i |-> i]
    ELSE LET c == get_char(At(tape, i))
             d == IF c = open_bracket THEN depth + 1
                  ELSE IF c = close_bracket THEN depth - 1
                  ELSE depth
         IN  IF d = 0 THEN [depth |-> 0, i |-> i]
             ELSE TracerScanForward(tape, i + 1, d)

\* The backward scan of case ']'.
RECURSIVE TracerScanBackward(_, _, _)
TracerScanBackward(tape, i, depth) ==
    IF i < 0 THEN [depth |-> depth, i |-> i]
    ELSE LET c == get_char(At(tape, i))
             d == IF c = close_bracket THEN depth + 1
                  ELSE IF c = open_bracket THEN depth - 1
                  ELSE depth
         IN  IF d = 0 THEN [depth |-> 0, i |-> i]
             ELSE TracerScanBackward(tape, i - 1, d)

\* pc_pos = pc_pos + 1 and the Finished test (after a skip and after the switch).
TracerAdvance(m) ==
    LET pc == m.pc_pos + 1
    IN  IF pc >= Len(m.tape)
        THEN [m EXCEPT !.pc_pos = pc, !.state = STATE_FINISHED, !.returned = TRUE]
        ELSE [m EXCEPT !.pc_pos = pc]

\* case '['.
TracerOpen(m) ==
    IF get_char(At(m.tape, m.head0_pos)) = zero
    THEN LET s == TracerScanForward(m.tape, m.pc_pos + 1, 1)
         IN  IF s.depth # 0
             THEN [m EXCEPT !.state = STATE_UNMATCHED_OPEN, !.returned = TRUE]
             ELSE TracerAdvance([m EXCEPT !.pc_pos = s.i])
    ELSE TracerAdvance(m)

\* case ']'.
TracerClose(m) ==
    IF get_char(At(m.tape, m.head0_pos)) # zero
    THEN LET s == TracerScanBackward(m.tape, m.pc_pos - 1, 1)
         IN  IF s.depth # 0
             THEN [m EXCEPT !.state = STATE_UNMATCHED_CLOSE, !.returned = TRUE]
             ELSE TracerAdvance([m EXCEPT !.pc_pos = s.i])
    ELSE TracerAdvance(m)

\* case '+' storing a token made for the new byte at the head's position.
TracerPlus_NewToken(m) ==
    [m EXCEPT !.tape = Put(@, m.head0_pos,
                           Token(0, m.head0_pos, get_char(At(@, m.head0_pos)) + 1))]

\* case '+' and case '-': set_char of the token at head 0.
TracerPlus(m) ==
    [m EXCEPT !.tape = Put(@, m.head0_pos,
                           set_char(At(@, m.head0_pos),
                                    get_char(At(@, m.head0_pos)) + 1))]

\* case '-' with current + 1.
TracerMinus_Increments(m) ==
    [m EXCEPT !.tape = Put(@, m.head0_pos,
                           set_char(At(@, m.head0_pos),
                                    get_char(At(@, m.head0_pos)) + 1))]

TracerMinus(m) ==
    [m EXCEPT !.tape = Put(@, m.head0_pos,
                           set_char(At(@, m.head0_pos),
                                    get_char(At(@, m.head0_pos)) - 1))]

\* case '.' copying the char part only, as the plain machine copies a byte.
TracerDot_CharOnly(m) ==
    [m EXCEPT !.tape = Put(@, m.head1_pos,
                           set_char(At(@, m.head1_pos),
                                    get_char(At(@, m.head0_pos))))]

\* case ',' copying in the direction of '.'.
TracerComma_Reversed(m) ==
    [m EXCEPT !.tape = Put(@, m.head1_pos, At(@, m.head0_pos))]

\* case '.' and case ',': the whole token is assigned.
TracerDot(m) == [m EXCEPT !.tape = Put(@, m.head1_pos, At(@, m.head0_pos))]

TracerComma(m) == [m EXCEPT !.tape = Put(@, m.head0_pos, At(@, m.head1_pos))]

\* The cases of the switch that neither jump nor fail.
TracerSimple(m) ==
    LET n == Len(m.tape)
        instruction == get_char(At(m.tape, m.pc_pos))
    IN  CASE instruction = ch_lt -> [m EXCEPT !.head0_pos = CRem(@ - 1 + n, n)]
          [] instruction = ch_gt -> [m EXCEPT !.head0_pos = CRem(@ + 1, n)]
          [] instruction = ch_lbrace -> [m EXCEPT !.head1_pos = CRem(@ - 1 + n, n)]
          [] instruction = ch_rbrace -> [m EXCEPT !.head1_pos = CRem(@ + 1, n)]
          [] instruction = ch_plus -> TracerPlus(m)
          [] instruction = ch_minus -> TracerMinus(m)
          [] instruction = ch_dot -> TracerDot(m)
          [] instruction = ch_comma -> TracerComma(m)
          [] OTHER -> m

\* The loop without its iteration++.
TracerIter_NoCount(m, mi) ==
    IF ~(m.iteration < mi)
    THEN [m EXCEPT !.state = IF m.iteration >= mi /\ @ = STATE_RUNNING
                             THEN STATE_TERMINATED ELSE @,
                   !.returned = TRUE]
    ELSE LET instruction == get_char(At(m.tape, m.pc_pos))
         IN  IF instruction \notin instructions
             THEN TracerAdvance([m EXCEPT !.skipped = @ + 1])
             ELSE IF instruction = open_bracket THEN TracerOpen(m)
             ELSE IF instruction = close_bracket THEN TracerClose(m)
             ELSE TracerAdvance(TracerSimple(m))

\* One evaluation of while (iteration < max_iter) and, when it holds, of the
\* body; when it fails, the test after the loop that sets Terminated.
TracerIter(m, mi) ==
    IF ~(m.iteration < mi)
    THEN [m EXCEPT !.state = IF m.iteration >= mi /\ @ = STATE_RUNNING
                             THEN STATE_TERMINATED ELSE @,
                   !.returned = TRUE]
    ELSE LET m1 == [m EXCEPT !.iteration = @ + 1]
             instruction == get_char(At(m1.tape, m1.pc_pos))
         IN  IF instruction \notin instructions
             THEN TracerAdvance([m1 EXCEPT !.skipped = @ + 1])
             ELSE IF instruction = open_bracket THEN TracerOpen(m1)
             ELSE IF instruction = close_bracket THEN TracerClose(m1)
             ELSE TracerAdvance(TracerSimple(m1))

(***************************************************************************)
(* Grid::create_spatial_pairs and GridWithTracer::create_spatial_pairs     *)
(* (src/grid.cpp, src/grid_w_tracer.cpp): the same code in both classes.   *)
(***************************************************************************)
Abs(a) == IF a < 0 THEN -a ELSE a

\* Grid::index.
index(x, y, w) == y * w + x

\* get_von_neumann_neighbors without the test manhattan_dist > radius: the
\* square of side 2r + 1 around the cell.
get_von_neumann_neighbors_Square(x, y, r, w, h) ==
    {c \in [x : 0..(w - 1), y : 0..(h - 1)] :
        \E dy \in (-r)..r, dx \in (-r)..r :
            /\ ~(Abs(dx) + Abs(dy) = 0)
            /\ c.x = x + dx
            /\ c.y = y + dy}

\* get_von_neumann_neighbors with the loop over dy left at dy = 0.
get_von_neumann_neighbors_RowOnly(x, y, r, w, h) ==
    {c \in [x : 0..(w - 1), y : 0..(h - 1)] :
        \E dx \in (-r)..r :
            /\ ~(Abs(dx) = 0 \/ Abs(dx) > r)
            /\ c.x = x + dx
            /\ c.y = y}

\* get_von_neumann_neighbors: the cells the two loops push.  The vector's
\* order decides only which element a random index picks.
get_von_neumann_neighbors(x, y, r, w, h) ==
    {c \in [x : 0..(w - 1), y : 0..(h - 1)] :
        \E dy \in (-r)..r, dx \in (-r)..r :
            /\ ~(Abs(dx) + Abs(dy) = 0 \/ Abs(dx) + Abs(dy) > r)
            /\ c.x = x + dx
            /\ c.y = y + dy}

\* available_neighbors without the test of taken[neighbor_idx].
available_neighbors_IgnoresTaken(cell_idx, r, w, h, tk) ==
    {index(c.x, c.y, w) : c \in get_von_neumann_neighbors(cell_idx % w, cell_idx \div w, r, w, h)}

\* available_neighbors: the indices of the neighbours not taken.
available_neighbors(cell_idx, r, w, h, tk) ==
    {index(c.x, c.y, w) :
        c \in {d \in get_von_neumann_neighbors(cell_idx % w, cell_idx \div w, r, w, h) :
                 ~tk[index(d.x, d.y, w)]}}

\* taken[cell_idx] = true without taken[chosen_idx] = true.
MarkPair_ForgetsChosen(tk, cell_idx, chosen_idx) == [tk EXCEPT ![cell_idx] = TRUE]

\* taken[cell_idx] = true; taken[chosen_idx] = true.
MarkPair(tk, cell_idx, chosen_idx) ==
    [tk EXCEPT ![cell_idx] = TRUE, ![chosen_idx] = TRUE]

\* The records: std::pair<int, int>.
Record(a, b) == [first |-> a, second |-> b]

\* The orders std::shuffle can leave the n cell indices in.
Shuffles(n) ==
    {o \in [1..n -> 0..(n - 1)] : \A i \in 1..n, j \in 1..n : i # j => o[i] # o[j]}

\* No call of create_spatial_pairs is in progress.
PairFrameIdle ==
    /\ radius = 0
    /\ cell_order = <<>>
    /\ taken = <<>>
    /\ pairs = <<>>
    /\ visit = 0
    /\ pstage = "idle"

\* No grid exists.
PairIdle ==
    /\ width = 0
    /\ height = 0
    /\ PairFrameIdle

\* The entry of create_spatial_pairs on a w x h grid: taken all false,
\* cell_order the identity, pairs empty.
PairEntry(w, h, r) ==
    /\ width = w
    /\ height = h
    /\ radius = r
    /\ cell_order = [i \in 1..(w * h) |-> i - 1]
    /\ taken = [c \in 0..(w * h - 1) |-> FALSE]
    /\ pairs = <<>>
    /\ visit = 0
    /\ pstage = "shuffle"

\* std::shuffle(cell_order.begin(), cell_order.end(), rng).
Shuffle ==
    /\ pstage = "shuffle"
    /\ \E o \in Shuffles(width * height) : cell_order' = o
    /\ pstage' = "visiting"
    /\ UNCHANGED <<width, height, radius, taken, pairs, visit>>

\* The iteration with pairs.push_back({chosen_idx, cell_idx}).
VisitCell_Reversed ==
    /\ pstage = "visiting"
    /\ visit < Len(cell_order)
    /\ LET cell_idx == cell_order[visit + 1]
           avail == available_neighbors(cell_idx, radius, width, height, taken)
       IN  IF taken[cell_idx]
           THEN UNCHANGED <<taken, pairs>>
           ELSE IF avail # {}
           THEN \E chosen_idx \in avail :
                  /\ taken' = MarkPair(taken, cell_idx, chosen_idx)
                  /\ pairs' = Append(pairs, Record(chosen_idx, cell_idx))
           ELSE /\ taken' = [taken EXCEPT ![cell_idx] = TRUE]
                /\ pairs' = Append(pairs, Record(-1, cell_idx))
    /\ visit' = visit + 1
    /\ pstage' = IF visit + 1 = Len(cell_order) THEN "returned" ELSE "visiting"
    /\ UNCHANGED <<width, height, radius, cell_order>>

\* One iteration of for (int cell_idx : cell_order); the function returns
\* after the last.
VisitCell ==
    /\ pstage = "visiting"
    /\ visit < Len(cell_order)
    /\ LET cell_idx == cell_order[visit + 1]
           avail == available_neighbors(cell_idx, radius, width, height, taken)
       IN  IF taken[cell_idx]
           THEN UNCHANGED <<taken, pairs>>
           ELSE IF avail # {}
           THEN \E chosen_idx \in avail :
                  /\ taken' = MarkPair(taken, cell_idx, chosen_idx)
                  /\ pairs' = Append(pairs, Record(cell_idx, chosen_idx))
           ELSE /\ taken' = [taken EXCEPT ![cell_idx] = TRUE]
                /\ pairs' = Append(pairs, Record(-1, cell_idx))
    /\ visit' = visit + 1
    /\ pstage' = IF visit + 1 = Len(cell_order) THEN "returned" ELSE "visiting"
    /\ UNCHANGED <<width, height, radius, cell_order>>

(***************************************************************************)
(* The bounds of the runs of the epoch drivers.                            *)
(***************************************************************************)
\* The run ends after NumEpochs epochs (config.epochs).
NumEpochs == 1

\* hardware_concurrency() reports a number in 0..MaxThreads.
MaxThreads == 2

\* Mutation replaces at most MaxMutations bytes in a run.
MaxMutations == 1

(***************************************************************************)
(* The epoch drivers: main of main_grid.cpp, main of                       *)
(* main_grid_w_tracer.cpp and evolve_grid_epoch of main_darwin.cpp.        *)
(***************************************************************************)
MAIN_GRID == "main_grid"
MAIN_GRID_W_TRACER == "main_grid_w_tracer"
MAIN_DARWIN == "main_darwin"

Drivers == {MAIN_GRID, MAIN_GRID_W_TRACER, MAIN_DARWIN}

\* The tokenized driver holds programs as vectors of Token, the two others
\* as vectors of bytes.
Tokenized(driver) == driver = MAIN_GRID_W_TRACER

\* int max_iter = 8192, the default the drivers leave to both machines.
default_max_iter == 8192

\* create_spatial_pairs(2), create_spatial_pairs(2, rng).
neighborhood_radius == 2

\* The next n evaluations of emulate's while loop from m, or as many of them
\* as it takes to return: the first half of them, then the rest.
RECURSIVE EmulateLoop(_, _, _)
EmulateLoop(m, mi, n) ==
    IF m.returned \/ n = 0 THEN m
    ELSE IF n = 1 THEN EmulateIter(m, mi)
    ELSE EmulateLoop(EmulateLoop(m, mi, n \div 2), mi, n - (n \div 2))

\* emulate, from its entry to its return: the loop test is evaluated at most
\* max_iter + 1 times.
EmulateRun(m, mi) == EmulateLoop(m, mi, mi + 1)

\* The EmulatorResult emulate returns.
emulate(tape, head0_pos, head1_pos, pc_pos, mi) ==
    LET m == EmulateRun(EmulateEntry(tape, head0_pos, head1_pos, pc_pos), mi)
    IN  [tape |-> m.tape, state |-> m.state,
         iteration |-> m.iteration, skipped |-> m.skipped]

\* The same for the while loop of emulate_w_tracer.
RECURSIVE TracerLoop(_, _, _)
TracerLoop(m, mi, n) ==
    IF m.returned \/ n = 0 THEN m
    ELSE IF n = 1 THEN TracerIter(m, mi)
    ELSE TracerLoop(TracerLoop(m, mi, n \div 2), mi, n - (n \div 2))

\* emulate_w_tracer, from its entry to its return.
TracerRun(m, mi) == TracerLoop(m, mi, mi + 1)

\* The EmulatorResultWithTracer emulate_w_tracer returns.
emulate_w_tracer(tape, head0_pos, head1_pos, pc_pos, mi) ==
    LET m == TracerRun(TracerEntry(tape, head0_pos, head1_pos, pc_pos), mi)
    IN  [tape |-> m.tape, head0_pos |-> m.head0_pos, head1_pos |-> m.head1_pos,
         pc_pos |-> m.pc_pos, iteration |-> m.iteration,
         skipped |-> m.skipped, state |-> m.state]

\* An element of results(program_pairs.size()): value-initialised.
DefaultResult(driver) ==
    IF Tokenized(driver)
    THEN [tape |-> <<>>, head0_pos |-> 0, head1_pos |-> 0, pc_pos |-> 0,
          iteration |-> 0, skipped |-> 0, state |-> ""]
    ELSE [tape |-> <<>>, state |-> "", iteration |-> 0, skipped |-> 0]

\* run_simulation_pair, run_simulation_pair_with_tracer: the call of the
\* machine on the tape the thread has built, heads at 0 and program_size.
run_simulation_pair(driver, tape, program_size) ==
    IF Tokenized(driver)
    THEN emulate_w_tracer(tape, 0, program_size, 0, default_max_iter)
    ELSE emulate(tape, 0, program_size, 0, default_max_iter)

\* A thread that has not been started.
NoThread == [stage |-> "none", tape |-> <<>>]

\* What a read through a dangling reference or past the end of a vector may
\* find: nothing the language fixes.  No run of the drivers makes such a read.
Garbage(driver, program_size) ==
    {[k \in 1..program_size |-> IF Tokenized(driver) THEN Token(0, 0, b) ELSE b] :
        b \in {0, zero}}

\* The program a thread finds behind std::ref(soup[cell]).
Referenced(sp, cell, driver, program_size) ==
    IF cell + 1 \in DOMAIN sp THEN {At(sp, cell)} ELSE Garbage(driver, program_size)

\* The split with the second range starting one element early.
Halves_Overlapping(tape, driver, program_size) ==
    IF Len(tape) >= program_size
    THEN {<<SubSeq(tape, 1, program_size),
            SubSeq(tape, program_size, Len(tape))>>}
    ELSE Garbage(driver, program_size) \X Garbage(driver, program_size)

\* The split with the two ranges exchanged.
Halves_Exchanged(tape, driver, program_size) ==
    IF Len(tape) >= program_size
    THEN {<<SubSeq(tape, program_size + 1, Len(tape)),
            SubSeq(tape, 1, program_size)>>}
    ELSE Garbage(driver, program_size) \X Garbage(driver, program_size)

\* programA_new, programB_new (result_a, result_b): the ranges
\* [begin, begin + program_size) and [begin + program_size, end) of the tape.
Halves(tape, driver, program_size) ==
    IF Len(tape) >= program_size
    THEN {<<SubSeq(tape, 1, program_size),
            SubSeq(tape, program_size + 1, Len(tape))>>}
    ELSE Garbage(driver, program_size) \X Garbage(driver, program_size)

\* The generators: the static rng of utils.cpp, and the std::mt19937 rng
\* that main_grid_w_tracer and main_darwin construct from the seed.
utils_rng == "utils.cpp:rng"
local_rng == "main:rng"

\* get_rng(): the process-wide generator that seed_random seeds.
get_rng == utils_rng

\* The generator the driver seeds with config.random_seed.
SeededGenerator(driver) == IF driver = MAIN_GRID THEN utils_rng ELSE local_rng

\* The generator create_spatial_pairs draws from.
PairingGenerator(driver) == IF driver = MAIN_GRID THEN get_rng ELSE local_rng

\* The generator mutate draws from.
MutationGenerator(driver) == IF driver = MAIN_GRID THEN utils_rng ELSE local_rng

\* mutation_rate 0.0, and a rate strictly between 0 and 1, for which the
\* test dis(rng) < mutation_rate can go either way.
RATE_ZERO == "0.0"
RATE_HALF == "0.5"

\* The bytes byte_dis draws.
MutationBytes == {ch_comma}

\* A value that is no byte: the position was not mutated.
NoHit == -1

\* How many bytes the draw d replaces.
Hits(d) == Cardinality({k \in 1..Len(d) : d[k] # NoHit})

\* mutate of utils.cpp, as decided by what the generator yields.  The draw d
\* holds for each position of the tape the byte that replaces it, or NoHit.
\* With mutation_rate 0.0 the function returns before it draws.
mutate_draws(tape, mutation_rate, budget) ==
    IF mutation_rate = RATE_ZERO
    THEN {[k \in 1..Len(tape) |-> NoHit]}
    ELSE {d \in [1..Len(tape) -> {NoHit} \cup MutationBytes] : Hits(d) <= budget}

mutate(tape, d) ==
    [k \in 1..Len(tape) |-> IF d[k] = NoHit THEN tape[k] ELSE U8(d[k])]

\* GridWithTracer::mutate.  The draw is NoHit everywhere when
\* mutation_dist(rng) < mutation_rate fails, and new_char at mut_pos when it
\* holds.
GridWithTracer_mutate_draws(program_size, mutation_rate, budget) ==
    {[k \in 1..program_size |-> NoHit]} \cup
      (IF mutation_rate = RATE_ZERO \/ budget < 1 THEN {}
       ELSE {[k \in 1..program_size |-> IF k = mut_pos + 1 THEN new_char ELSE NoHit] :
               mut_pos \in 0..(program_size - 1), new_char \in MutationBytes})

\* A mutation that, on a hit, builds every token of the program anew.
GridWithTracer_mutate_Restamps(program, d, ep) ==
    IF Hits(d) = 0 THEN program
    ELSE [k \in 1..Len(program) |->
            Token(ep, k - 1, IF d[k] = NoHit THEN program[k].char ELSE d[k])]

GridWithTracer_mutate(program, d, ep) ==
    IF Hits(d) = 0 THEN program
    ELSE LET mut_pos == (CHOOSE k \in 1..Len(d) : d[k] # NoHit) - 1
         IN  Put(program, mut_pos, Token(ep, mut_pos, d[mut_pos + 1]))

\* mutate(tape, mutation_rate, rng), which main_darwin calls: with
\* probability mutation_rate exactly one position, chosen uniformly, gets a
\* uniformly random byte.
mutate_rng_draws(tape, mutation_rate, budget) ==
    {[k \in 1..Len(tape) |-> NoHit]} \cup
      (IF mutation_rate = RATE_ZERO \/ budget < 1 THEN {}
       ELSE {[k \in 1..Len(tape) |-> IF k = mut_pos + 1 THEN new_char ELSE NoHit] :
               mut_pos \in 0..(Len(tape) - 1), new_char \in MutationBytes})

mutate_rng(tape, d) ==
    [k \in 1..Len(tape) |-> IF d[k] = NoHit THEN tape[k] ELSE U8(d[k])]

\* The draws of one call of the driver's mutate, and the program it returns.
Draws(driver, program, program_size, mutation_rate, budget) ==
    IF Tokenized(driver)
    THEN GridWithTracer_mutate_draws(program_size, mutation_rate, budget)
    ELSE IF driver = MAIN_DARWIN
    THEN mutate_rng_draws(program, mutation_rate, budget)
    ELSE mutate_draws(program, mutation_rate, budget)

Mutated(driver, program, d, ep) ==
    IF Tokenized(driver) THEN GridWithTracer_mutate(program, d, ep)
    ELSE IF driver = MAIN_DARWIN THEN mutate_rng(program, d)
    ELSE mutate(program, d)

(***************************************************************************)
(* WebSocketServer (src/websocket_server.cpp): the client list, the pause  *)
(* flag and the sockets behind them.                                       *)
(***************************************************************************)
MaxSockets == 3
MaxBroadcasts == 2

\* The descriptors accept returns.
Sockets == 1..MaxSockets

\* The connection behind a descriptor: none (the descriptor is closed),
\* connected, reset (an error is pending on the socket; send returns -1) or
\* peer_closed (the peer has closed and the connection is gone).
CONN_NONE == "none"
CONN_CONNECTED == "connected"
CONN_RESET == "reset"
CONN_PEER_CLOSED == "peer_closed"

SENT == "sent > 0"
SEND_ERROR == "sent <= 0"
SIGPIPE == "SIGPIPE"

\* send(sock, frame.data(), frame.size(), 0).  The flags are 0 and no code of
\* the repository changes the disposition of SIGPIPE, so a send on a
\* connection the peer has closed raises the signal and ends the process
\* where the platform has it (POSIX), and returns an error where it has not.
SendOutcomes(c) ==
    IF c = CONN_CONNECTED THEN {SENT}
    ELSE IF c = CONN_PEER_CLOSED THEN {SEND_ERROR, SIGPIPE}
    ELSE {SEND_ERROR}

\* v without its element at position i (counted from 1): vector::erase.
Erase(v, i) == SubSeq(v, 1, i - 1) \o SubSeq(v, i + 1, Len(v))

\* The while loop of broadcast from the iterator it, on what each send
\* returns: a frame is counted for a socket whose send succeeds; a socket
\* whose send fails is closed and erased, and the iterator stays on the
\* element that follows; a signal ends the loop with the process.
RECURSIVE BroadcastLoop(_, _)
BroadcastLoop(b, outcome) ==
    IF ~b.alive \/ b.it > Len(b.client_sockets) THEN b
    ELSE LET sock == b.client_sockets[b.it]
         IN  IF outcome[sock] = SENT
             THEN BroadcastLoop([b EXCEPT !.delivered[sock] = @ + 1, !.it = @ + 1],
                                outcome)
             ELSE IF outcome[sock] = SEND_ERROR
             THEN BroadcastLoop([b EXCEPT !.conn[sock] = CONN_NONE,
                                          !.closes[sock] = @ + 1,
                                          !.client_sockets = Erase(@, b.it)],
                                outcome)
             ELSE [b EXCEPT !.alive = FALSE]

\* WebSocketServer::broadcast, a whole call.
broadcast(outcome) ==
    BroadcastLoop([client_sockets |-> client_sockets, it |-> 1, conn |-> conn,
                   delivered |-> delivered, closes |-> closes, alive |-> TRUE], outcome)

\* What the sends of one call may return.
SendResults ==
    {outcome \in [Sockets -> {SENT, SEND_ERROR, SIGPIPE}] :
        \A fd \in Sockets : outcome[fd] \in SendOutcomes(conn[fd])}

\* The driver, or another caller, calls broadcast.
CallBroadcast ==
    \E outcome \in SendResults :
        LET b == broadcast(outcome)
        IN  /\ client_sockets' = b.client_sockets
            /\ conn' = b.conn
            /\ delivered' = b.delivered
            /\ closes' = b.closes
            /\ server_alive' = b.alive
            /\ broadcasts' = broadcasts + 1

\* The server as its constructor leaves it.
ServerIdle ==
    /\ paused = FALSE
    /\ client_sockets = <<>>
    /\ handlers = {}
    /\ conn = [fd \in Sockets |-> CONN_NONE]
    /\ delivered = [fd \in Sockets |-> 0]
    /\ broadcasts = 0
    /\ server_alive = TRUE
    /\ running = TRUE
    /\ closes = [fd \in Sockets |-> 0]

\* server_thread accepts a connection and handle_client, on its own thread,
\* answers the handshake and adds the socket to the client list.
Accept(fd) ==
    /\ server_alive
    /\ running
    /\ conn[fd] = CONN_NONE
    /\ fd \notin handlers
    /\ conn' = [conn EXCEPT ![fd] = CONN_CONNECTED]
    /\ client_sockets' = Append(client_sockets, fd)
    /\ handlers' = handlers \cup {fd}
    /\ closes' = [closes EXCEPT ![fd] = 0]
    /\ UNCHANGED <<paused, delivered, broadcasts, server_alive, running>>

\* The peer closes its end, and the connection is gone.
PeerCloses(fd) ==
    /\ server_alive
    /\ conn[fd] = CONN_CONNECTED
    /\ conn' = [conn EXCEPT ![fd] = CONN_PEER_CLOSED]
    /\ UNCHANGED <<paused, client_sockets, handlers, delivered, broadcasts, server_alive, running,
                   closes>>

\* The connection is reset, or times out.
PeerResets(fd) ==
    /\ server_alive
    /\ conn[fd] = CONN_CONNECTED
    /\ conn' = [conn EXCEPT ![fd] = CONN_RESET]
    /\ UNCHANGED <<paused, client_sockets, handlers, delivered, broadcasts, server_alive, running,
                   closes>>

\* handle_client: recv returns bytes <= 0, the loop breaks, the socket is
\* erased from the client list if it is there, and closed.
HandlerExit(fd) ==
    /\ server_alive
    /\ fd \in handlers
    /\ conn[fd] # CONN_CONNECTED
    /\ client_sockets' = SelectSeq(client_sockets, LAMBDA c : c # fd)
    /\ conn' = [conn EXCEPT ![fd] = CONN_NONE]
    /\ handlers' = handlers \ {fd}
    /\ closes' = [closes EXCEPT ![fd] = @ + 1]
    /\ UNCHANGED <<paused, delivered, broadcasts, server_alive, running>>

\* handle_client: message == "pause".
ClientPause ==
    /\ server_alive
    /\ \E fd \in handlers : conn[fd] = CONN_CONNECTED
    /\ paused' = TRUE
    /\ UNCHANGED <<client_sockets, handlers, conn, delivered, broadcasts, server_alive, running,
                   closes>>

\* handle_client: message == "play".
ClientPlay ==
    /\ server_alive
    /\ \E fd \in handlers : conn[fd] = CONN_CONNECTED
    /\ paused' = FALSE
    /\ UNCHANGED <<client_sockets, handlers, conn, delivered, broadcasts, server_alive, running,
                   closes>>

\* A call of broadcast.
Broadcast ==
    /\ server_alive
    /\ broadcasts < MaxBroadcasts
    /\ CallBroadcast
    /\ UNCHANGED <<paused, handlers, running>>

\* No driver runs.
DriverIdle ==
    /\ config = [driver |-> "", mutation_rate |-> RATE_ZERO,
                 program_size |-> 0, epochs |-> 0, random_seed |-> 0]
    /\ num_threads = 0
    /\ grid_data = <<>>
    /\ epoch = 0
    /\ soup = <<>>
    /\ results = <<>>
    /\ threads = <<>>
    /\ workers = <<>>
    /\ main_pc = "idle"
    /\ idx = 0
    /\ epoch_input = <<>>
    /\ draws = <<>>
    /\ mutations = 0
    /\ rng_used = {}

\* The call of create_spatial_pairs on the driver's grid.
CallCreateSpatialPairs(r) ==
    /\ radius' = r
    /\ cell_order' = [k \in 1..(width * height) |-> k - 1]
    /\ taken' = [c \in 0..(width * height - 1) |-> FALSE]
    /\ pairs' = <<>>
    /\ visit' = 0
    /\ pstage' = "shuffle"
    /\ UNCHANGED <<width, height>>

\* The head of the epoch loop: epoch < config.epochs holds, soup becomes a
\* copy of the population, and create_spatial_pairs is entered.
\* The drivers whose epoch loop opens with while (ws_server.is_paused()):
\* main_grid and main_darwin.  The loop of main_grid_w_tracer has no such
\* statement.
ChecksPause(driver) == driver \in {MAIN_GRID, MAIN_DARWIN}

StartEpoch ==
    /\ main_pc = "epoch"
    /\ epoch < config.epochs
    /\ ChecksPause(config.driver) => ~paused
    /\ soup' = grid_data
    /\ epoch_input' = grid_data
    /\ draws' = <<>>
    /\ CallCreateSpatialPairs(neighborhood_radius)
    /\ main_pc' = "pairing"
    /\ UNCHANGED <<emuVars, fpVars, sbsVars, serverVars, config, num_threads, grid_data, epoch, results, threads, workers, idx,
                   mutations, rng_used>>

\* A step of create_spatial_pairs in the driver, on the driver's generator.
PairingStep ==
    /\ main_pc = "pairing"
    /\ Shuffle \/ VisitCell
    /\ rng_used' = rng_used \cup {PairingGenerator(config.driver)}
    /\ UNCHANGED <<emuVars, fpVars, sbsVars, serverVars, config, num_threads, grid_data, epoch, soup, results, threads, workers,
                   main_pc, idx, epoch_input, draws, mutations>>

\* if (num_threads == 0) num_threads = 4.
fallback_threads == 4

\* num_threads, from what std::thread::hardware_concurrency() reports.
NumThreads(reported) == IF reported = 0 THEN fallback_threads ELSE reported

\* create_spatial_pairs has returned program_pairs; results and threads are
\* constructed, num_threads is what hardware_concurrency() reports (4 when
\* it reports 0), and the dispatch loop starts at i = 0.
BeginDispatch ==
    /\ main_pc = "pairing"
    /\ pstage = "returned"
    /\ \E reported \in 0..MaxThreads : num_threads' = NumThreads(reported)
    /\ results' = [k \in 1..Len(pairs) |-> DefaultResult(config.driver)]
    /\ workers' = [k \in 1..Len(pairs) |-> NoThread]
    /\ threads' = <<>>
    /\ idx' = 0
    /\ main_pc' = "dispatch"
    /\ radius' = 0
    /\ cell_order' = <<>>
    /\ taken' = <<>>
    /\ visit' = 0
    /\ pstage' = "idle"
    /\ UNCHANGED <<emuVars, fpVars, sbsVars, serverVars, width, height, pairs, config, grid_data, epoch, soup,
                   epoch_input, draws, mutations, rng_used>>

\* The dispatch loop at a mutation-only record: continue.
DispatchSkip ==
    /\ main_pc = "dispatch"
    /\ idx < Len(pairs)
    /\ pairs[idx + 1].first = -1
    /\ idx' = idx + 1
    /\ UNCHANGED <<emuVars, fpVars, sbsVars, serverVars, pairVars, config, num_threads, grid_data, epoch, soup, results, threads,
                   workers, main_pc, epoch_input, draws, mutations, rng_used>>

\* thread.detach() in the place of thread.join(): the main thread goes on
\* whether or not the thread has ended.
Joined_Detached(w) == TRUE

\* thread.join() returns once the thread has ended.
Joined(w) == w.stage = "done"

\* main_grid, main_darwin: threads.size() >= num_threads, so threads[0] is
\* joined, which returns once that thread has finished, and erased.
JoinOldest ==
    /\ main_pc = "dispatch"
    /\ idx < Len(pairs)
    /\ pairs[idx + 1].first # -1
    /\ ~Tokenized(config.driver)
    /\ Len(threads) >= num_threads
    /\ Joined(workers[Head(threads)])
    /\ threads' = Tail(threads)
    /\ UNCHANGED <<emuVars, fpVars, sbsVars, serverVars, pairVars, config, num_threads, grid_data, epoch, soup, results, workers,
                   main_pc, idx, epoch_input, draws, mutations, rng_used>>

\* The start of a thread with no test of threads.size() before it.
StartThread_NoLimit ==
    /\ main_pc = "dispatch"
    /\ idx < Len(pairs)
    /\ pairs[idx + 1].first # -1
    /\ threads' = Append(threads, idx + 1)
    /\ workers' = [workers EXCEPT ![idx + 1] = [stage |-> "started", tape |-> <<>>]]
    /\ idx' = idx + 1
    /\ main_pc' = IF Tokenized(config.driver) /\ Len(threads) + 1 >= num_threads
                  THEN "limit" ELSE "dispatch"
    /\ UNCHANGED <<emuVars, fpVars, sbsVars, serverVars, pairVars, config, num_threads, grid_data, epoch, soup, results,
                   epoch_input, draws, mutations, rng_used>>

\* threads.emplace_back(run_simulation_pair, soup[idx_a], soup[idx_b],
\* program_size, results[i]).  main_grid_w_tracer tests the limit after it.
StartThread ==
    /\ main_pc = "dispatch"
    /\ idx < Len(pairs)
    /\ pairs[idx + 1].first # -1
    /\ Tokenized(config.driver) \/ Len(threads) < num_threads
    /\ threads' = Append(threads, idx + 1)
    /\ workers' = [workers EXCEPT ![idx + 1] = [stage |-> "started", tape |-> <<>>]]
    /\ idx' = idx + 1
    /\ main_pc' = IF Tokenized(config.driver) /\ Len(threads) + 1 >= num_threads
                  THEN "limit" ELSE "dispatch"
    /\ UNCHANGED <<emuVars, fpVars, sbsVars, serverVars, pairVars, config, num_threads, grid_data, epoch, soup, results,
                   epoch_input, draws, mutations, rng_used>>

\* main_grid_w_tracer: threads.size() >= num_threads, so every thread is
\* joined, in order, and threads is cleared.
JoinBatch ==
    /\ main_pc = "limit"
    /\ threads # <<>>
    /\ Joined(workers[Head(threads)])
    /\ threads' = Tail(threads)
    /\ main_pc' = IF Tail(threads) = <<>> THEN "dispatch" ELSE "limit"
    /\ UNCHANGED <<emuVars, fpVars, sbsVars, serverVars, pairVars, config, num_threads, grid_data, epoch, soup, results, workers,
                   idx, epoch_input, draws, mutations, rng_used>>

\* Where the main thread goes from the end of the dispatch loop without
\* the loop that joins the threads.
AfterDispatch_NoJoin(th) == "process"

\* for (auto& thread : threads) thread.join(): the main thread reaches the
\* process loop only through the join of every thread still in threads.
AfterDispatch(th) == IF th = <<>> THEN "process" ELSE "join"

\* The dispatch loop ends.
EndDispatch ==
    /\ main_pc = "dispatch"
    /\ idx = Len(pairs)
    /\ main_pc' = AfterDispatch(threads)
    /\ idx' = 0
    /\ UNCHANGED <<emuVars, fpVars, sbsVars, serverVars, pairVars, config, num_threads, grid_data, epoch, soup, results, threads,
                   workers, epoch_input, draws, mutations, rng_used>>

\* One join of the loop that waits for all threads.
JoinRemaining ==
    /\ main_pc = "join"
    /\ threads # <<>>
    /\ Joined(workers[Head(threads)])
    /\ threads' = Tail(threads)
    /\ main_pc' = AfterDispatch(Tail(threads))
    /\ UNCHANGED <<emuVars, fpVars, sbsVars, serverVars, pairVars, config, num_threads, grid_data, epoch, soup, results, workers,
                   idx, epoch_input, draws, mutations, rng_used>>

\* The thread of record k with a call of mutate on its tape: a draw from
\* the generator of utils.cpp on the thread.
WorkerCopy_Mutates(k) ==
    /\ workers[k].stage = "started"
    /\ \E programA \in Referenced(soup, pairs[k].first, config.driver, config.program_size),
          programB \in Referenced(soup, pairs[k].second, config.driver, config.program_size) :
         workers' = [workers EXCEPT ![k] = [stage |-> "copied", tape |-> programA \o programB]]
    /\ draws' = Append(draws, [i \in 1..config.program_size |-> NoHit])
    /\ rng_used' = rng_used \cup {utils_rng}
    /\ UNCHANGED <<emuVars, fpVars, sbsVars, serverVars, pairVars, config, num_threads, grid_data, epoch, soup, results, threads,
                   main_pc, idx, epoch_input, mutations>>

\* The thread of record k: tape = programA, then programB appended.
WorkerCopy(k) ==
    /\ workers[k].stage = "started"
    /\ \E programA \in Referenced(soup, pairs[k].first, config.driver, config.program_size),
          programB \in Referenced(soup, pairs[k].second, config.driver, config.program_size) :
         workers' = [workers EXCEPT ![k] = [stage |-> "copied", tape |-> programA \o programB]]
    /\ UNCHANGED <<emuVars, fpVars, sbsVars, serverVars, pairVars, config, num_threads, grid_data, epoch, soup, results, threads,
                   main_pc, idx, epoch_input, draws, mutations, rng_used>>

\* The thread of record k with a result that is one object for all threads:
\* every thread assigns the first slot.
WorkerEmulate_SharedSlot(k) ==
    /\ workers[k].stage = "copied"
    /\ results' = [results EXCEPT
                     ![1] = run_simulation_pair(config.driver, workers[k].tape,
                                                config.program_size)]
    /\ workers' = [workers EXCEPT ![k].stage = "done"]
    /\ UNCHANGED <<emuVars, fpVars, sbsVars, serverVars, pairVars, config, num_threads, grid_data, epoch, soup, threads,
                   main_pc, idx, epoch_input, draws, mutations, rng_used>>

\* The thread of record k: result = emulate(tape, 0, program_size), and the
\* thread ends.
WorkerEmulate(k) ==
    /\ workers[k].stage = "copied"
    /\ results' = [results EXCEPT
                     ![k] = run_simulation_pair(config.driver, workers[k].tape,
                                                config.program_size)]
    /\ workers' = [workers EXCEPT ![k].stage = "done"]
    /\ UNCHANGED <<emuVars, fpVars, sbsVars, serverVars, pairVars, config, num_threads, grid_data, epoch, soup, threads,
                   main_pc, idx, epoch_input, draws, mutations, rng_used>>

\* The population after the process loop has handled a record: the plain
\* drivers write soup, main_grid_w_tracer writes the grid (set_program).
Written(population, cell, program) == Put(population, cell, program)

\* One iteration of the process loop.  A mutation-only record mutates
\* soup[idx_b]; a proper pair splits its result tape, mutates both halves and
\* writes them to idx_a and idx_b.  ep is the epoch a new token is given.
Process ==
    /\ main_pc = "process"
    /\ idx < Len(pairs)
    /\ LET idx_a == pairs[idx + 1].first
           idx_b == pairs[idx + 1].second
           driver == config.driver
           size == config.program_size
           rate == config.mutation_rate
           budget == MaxMutations - mutations
           target == IF Tokenized(driver) THEN grid_data ELSE soup
       IN  \E h \in (IF idx_a = -1 THEN {<<At(soup, idx_b)>>}
                     ELSE Halves(results[idx + 1].tape, driver, size)) :
             \E da \in Draws(driver, h[1], size, rate, budget) :
               \E db \in (IF idx_a = -1 THEN {<<>>}
                          ELSE Draws(driver, h[2], size, rate, budget - Hits(da))) :
                 LET after == IF idx_a = -1
                              THEN Written(target, idx_b,
                                           Mutated(driver, h[1], da, epoch + 1))
                              ELSE Written(Written(target, idx_a,
                                                   Mutated(driver, h[1], da, epoch + 1)),
                                           idx_b, Mutated(driver, h[2], db, epoch + 1))
                 IN  /\ IF Tokenized(driver)
                        THEN grid_data' = after /\ UNCHANGED soup
                        ELSE soup' = after /\ UNCHANGED grid_data
                     /\ draws' = IF idx_a = -1 THEN Append(draws, da)
                                 ELSE draws \o <<da, db>>
                     /\ mutations' = mutations + Hits(da) + Hits(db)
    /\ rng_used' = IF Tokenized(config.driver) \/ config.mutation_rate # RATE_ZERO
                   THEN rng_used \cup {MutationGenerator(config.driver)}
                   ELSE rng_used
    /\ idx' = idx + 1
    /\ UNCHANGED <<emuVars, fpVars, sbsVars, serverVars, pairVars, config, num_threads, epoch, results, threads, workers, main_pc,
                   epoch_input>>

\* The process loop ends; main_grid and main_darwin copy soup back with
\* grid.set_all_programs(soup).
FinishProcess ==
    /\ main_pc = "process"
    /\ idx = Len(pairs)
    /\ grid_data' = IF Tokenized(config.driver) THEN grid_data ELSE soup
    /\ main_pc' = "epoch_end"
    /\ UNCHANGED <<emuVars, fpVars, sbsVars, serverVars, pairVars, config, num_threads, epoch, soup, results, threads, workers,
                   idx, epoch_input, draws, mutations, rng_used>>

\* The end of the loop body: the epoch's update is broadcast
\* (ws_server.broadcast), the locals are destroyed and epoch++.
EndEpoch ==
    /\ main_pc = "epoch_end"
    /\ epoch' = epoch + 1
    /\ soup' = <<>>
    /\ pairs' = <<>>
    /\ results' = <<>>
    /\ threads' = <<>>
    /\ workers' = <<>>
    /\ num_threads' = 0
    /\ idx' = 0
    /\ epoch_input' = <<>>
    /\ draws' = <<>>
    /\ main_pc' = "epoch"
    /\ CallBroadcast
    /\ UNCHANGED <<emuVars, fpVars, sbsVars, paused, handlers, running, width, height, radius, cell_order, taken, visit,
                   pstage, config, grid_data, mutations, rng_used>>

\* The epoch as test_grid_comparison runs it, one record after the other on
\* one thread, from record k of program_pairs and draw j of the generator:
\* the population it ends with.
RECURSIVE Replay(_, _, _)
Replay(population, k, j) ==
    IF k > Len(pairs) THEN population
    ELSE LET idx_a == pairs[k].first
             idx_b == pairs[k].second
             driver == config.driver
             size == config.program_size
         IN  IF idx_a = -1
             THEN Replay(Put(population, idx_b,
                             Mutated(driver, At(population, idx_b), draws[j], epoch + 1)),
                         k + 1, j + 1)
             ELSE LET result == run_simulation_pair(
                                    driver, At(population, idx_a) \o At(population, idx_b), size)
                      programA_new == SubSeq(result.tape, 1, size)
                      programB_new == SubSeq(result.tape, size + 1, Len(result.tape))
                  IN  Replay(Put(Put(population, idx_a,
                                     Mutated(driver, programA_new, draws[j], epoch + 1)),
                                 idx_b, Mutated(driver, programB_new, draws[j + 1], epoch + 1)),
                             k + 1, j + 2)

(***************************************************************************)
(* The lineage analyzer (src/forward_pass_analysis.cpp): find_replicators  *)
(* and the functions it calls.  A program is a std::string, here the       *)
(* sequence of its bytes.                                                  *)
(***************************************************************************)
space == 32
replicator_max_iter == 1024

\* is_valid_instruction: ch is one of ",.[]{}<>+-".
is_valid_instruction(ch) ==
    ch \in {ch_comma, ch_dot, open_bracket, close_bracket, ch_lbrace, ch_rbrace,
            ch_lt, ch_gt, ch_plus, ch_minus}

\* clean_program: every byte that is no instruction becomes a space.
clean_program(program) ==
    [i \in 1..Len(program) |->
        IF is_valid_instruction(program[i]) THEN program[i] ELSE space]

\* check_replicator: the program is run against as many '0' bytes, and is a
\* replicator when the two halves of the tape it leaves are equal.
check_replicator(program_str, mi) ==
    IF program_str = <<>> THEN FALSE
    ELSE LET n == Len(program_str)
             tape == program_str \o [i \in 1..n |-> zero]
             result == emulate(tape, 0, n, 0, mi)
             mid == Len(result.tape) \div 2
         IN  IF Len(result.tape) < n * 2 THEN FALSE
             ELSE \A i \in 1..mid : result.tape[i] = result.tape[mid + i]

\* calculate_similarity.  The double matches / prog1.size() is kept as the
\* fraction it rounds: the quotient of two small integers.
calculate_similarity(prog1, prog2) ==
    IF Len(prog1) # Len(prog2) THEN [num |-> 0, den |-> 1]
    ELSE IF prog1 = <<>> THEN [num |-> 0, den |-> 1]
    ELSE [num |-> Cardinality({i \in 1..Len(prog1) : prog1[i] = prog2[i]}),
          den |-> Len(prog1)]

\* similarity > 0.9.  The double nearest num / den exceeds the double
\* nearest 9 / 10 exactly when the fraction exceeds 9 / 10: two distinct
\* fractions of such denominators are many roundings apart, and equal
\* fractions round alike.
AboveThreshold(similarity) == similarity.num * 10 > 9 * similarity.den

ProgramLocation(e, x, y, program) ==
    [epoch |-> e, grid_x |-> x, grid_y |-> y, program |-> program]

\* std::string's operator<: the bytes compared in order, a proper prefix
\* first.
StringLess(a, b) ==
    \/ \E i \in 1..Min(Len(a), Len(b)) :
         /\ \A j \in 1..(i - 1) : a[j] = b[j]
         /\ a[i] < b[i]
    \/ /\ Len(a) < Len(b)
       /\ \A j \in 1..Len(a) : a[j] = b[j]

\* ProgramLocation::operator<.
LocationLess(a, b) ==
    IF a.epoch # b.epoch THEN a.epoch < b.epoch
    ELSE IF a.grid_x # b.grid_x THEN a.grid_x < b.grid_x
    ELSE IF a.grid_y # b.grid_y THEN a.grid_y < b.grid_y
    ELSE StringLess(a.program, b.program)

\* The elements of a std::set<ProgramLocation> in the order a range-for
\* visits them.
RECURSIVE InOrder(_)
InOrder(S) ==
    IF S = {} THEN <<>>
    ELSE LET first == CHOOSE x \in S : \A y \in S \ {x} : LocationLess(x, y)
         IN  <<first>> \o InOrder(S \ {first})

\* get_neighboors without the corners.
get_neighboors_NoCorners(grid_x, grid_y) ==
    << <<grid_x, grid_y>>,
       <<grid_x - 1, grid_y>>, <<grid_x + 1, grid_y>>,
       <<grid_x, grid_y - 1>>, <<grid_x, grid_y + 1>>,
       <<grid_x - 2, grid_y>>, <<grid_x + 2, grid_y>>,
       <<grid_x, grid_y - 2>>, <<grid_x, grid_y + 2>> >>

\* get_neighboors: the middle, r = 1, r = 2, the corners.
get_neighboors(grid_x, grid_y) ==
    << <<grid_x, grid_y>>,
       <<grid_x - 1, grid_y>>, <<grid_x + 1, grid_y>>,
       <<grid_x, grid_y - 1>>, <<grid_x, grid_y + 1>>,
       <<grid_x - 2, grid_y>>, <<grid_x + 2, grid_y>>,
       <<grid_x, grid_y - 2>>, <<grid_x, grid_y + 2>>,
       <<grid_x - 1, grid_y - 1>>, <<grid_x + 1, grid_y + 1>>,
       <<grid_x + 1, grid_y - 1>>, <<grid_x - 1, grid_y + 1>> >>

\* The candidates the body of the neighbour loop pushes for one replicator
\* and one neighbour: case 1 (the neighbour was paired with the replicator's
\* position: the neighbour's program, then the program at the replicator's
\* own position) and case 2 (mutation-only at the replicator's position).
NeighborCandidates(replicator, neigh, next_cells, e, grid_width, grid_height) ==
    LET neigh_x == neigh[1]
        neigh_y == neigh[2]
        rep_x == replicator.grid_x
        rep_y == replicator.grid_y
        rep_program == replicator.program
    IN  IF neigh_x < 0 \/ neigh_x >= grid_width \/ neigh_y < 0 \/ neigh_y >= grid_height
        THEN <<>>
        ELSE IF <<neigh_x, neigh_y>> \notin DOMAIN next_cells THEN <<>>
        ELSE LET neighbor_cell == next_cells[<<neigh_x, neigh_y>>]
                 paired == /\ neighbor_cell.combined_x = rep_x
                           /\ neighbor_cell.combined_y = rep_y
                 alone == /\ neighbor_cell.combined_x = -1
                          /\ neighbor_cell.combined_y = -1
                          /\ neigh_x = rep_x
                          /\ neigh_y = rep_y
                 near == AboveThreshold(
                             calculate_similarity(rep_program, neighbor_cell.program))
                 there == <<ProgramLocation(e + 1, neigh_x, neigh_y,
                                            neighbor_cell.program)>>
                 same == IF <<rep_x, rep_y>> \in DOMAIN next_cells
                         THEN LET next_same == next_cells[<<rep_x, rep_y>>].program
                              IN  IF AboveThreshold(
                                         calculate_similarity(rep_program, next_same))
                                  THEN <<ProgramLocation(e + 1, rep_x, rep_y, next_same)>>
                                  ELSE <<>>
                         ELSE <<>>
             IN  (IF paired /\ near THEN there ELSE <<>>)
                   \o (IF paired THEN same ELSE <<>>)
                   \o (IF alone /\ near THEN there ELSE <<>>)

\* The candidates of one replicator, from neighbour k of get_neighboors on.
RECURSIVE ReplicatorCandidates(_, _, _, _, _, _)
ReplicatorCandidates(replicator, k, next_cells, e, grid_width, grid_height) ==
    LET neighbors == get_neighboors(replicator.grid_x, replicator.grid_y)
    IN  IF k > Len(neighbors) THEN <<>>
        ELSE NeighborCandidates(replicator, neighbors[k], next_cells, e,
                                grid_width, grid_height)
               \o ReplicatorCandidates(replicator, k + 1, next_cells, e,
                                       grid_width, grid_height)

\* The vector candidates after the loop over current_replicators, given in
\* the set's order.
RECURSIVE Candidates(_, _, _, _, _)
Candidates(current_replicators, next_cells, e, grid_width, grid_height) ==
    IF current_replicators = <<>> THEN <<>>
    ELSE ReplicatorCandidates(Head(current_replicators), 1, next_cells, e,
                              grid_width, grid_height)
           \o Candidates(Tail(current_replicators), next_cells, e,
                         grid_width, grid_height)

\* ProgramCache: has, is_replicator, add.
cache_has(cache, program) == program \in DOMAIN cache

cache_is_replicator(cache, program) ==
    IF program \in DOMAIN cache THEN cache[program] ELSE FALSE

cache_add(cache, program, is_replicator) ==
    [p \in DOMAIN cache \cup {program} |->
        IF p = program THEN is_replicator ELSE cache[p]]

\* replicators_by_epoch[e]: the map gets an empty set at e if it has none.
Touched(by_epoch, e) ==
    [k \in DOMAIN by_epoch \cup {e} |-> IF k \in DOMAIN by_epoch THEN by_epoch[k] ELSE {}]

\* replicators_by_epoch[e].insert(location).
Inserted(by_epoch, e, location) ==
    [Touched(by_epoch, e) EXCEPT ![e] = @ \cup {location}]

\* The number of epochs of a forward pass and the largest num_threads.
FpEpochs == 2
FpThreads == 2

Spaces(n) == [i \in 1..n |-> space]

\* The programs of the snapshot files, as the driver wrote them.  CopyLoop
\* ("[.>}]") copies the first half of the tape onto the second; the others
\* differ from it in the last byte, in the last two, in the closing bracket,
\* and in a byte that is no instruction.
CopyLoop == <<open_bracket, ch_dot, ch_gt, ch_rbrace, close_bracket>> \o Spaces(15)
CopyLoopPlus == SubSeq(CopyLoop, 1, 19) \o <<ch_plus>>
CopyLoopPlusPlus == SubSeq(CopyLoop, 1, 18) \o <<ch_plus, ch_plus>>
CopyOnce == SubSeq(CopyLoop, 1, 4) \o Spaces(16)
CopyLoopRaw == SubSeq(CopyLoop, 1, 19) \o <<zero>>

SnapshotPrograms == {CopyLoop, CopyLoopPlus, CopyLoopPlusPlus, CopyOnce, CopyLoopRaw}

\* check_replicator(program) for every cleaned program of the snapshots.
Verdicts ==
    [program \in {clean_program(raw) : raw \in SnapshotPrograms} |->
        check_replicator(program, replicator_max_iter)]

\* The grid of the snapshots.
FpGrid == [grid_width |-> 2, grid_height |-> 1]

FpCells ==
    {<<x, y>> : x \in 0..(FpGrid.grid_width - 1), y \in 0..(FpGrid.grid_height - 1)}

\* The rows of a pairing file the driver writes: every cell once, with its
\* program and the position it was combined with, (-1, -1) if with none.
PairingFiles ==
    {rows \in [FpCells -> [program : SnapshotPrograms,
                           combined : FpCells \cup {<<-1, -1>>}]] :
        \A pos \in FpCells :
            \/ rows[pos].combined = <<-1, -1>>
            \/ /\ rows[pos].combined # pos
               /\ rows[rows[pos].combined].combined = pos}

\* read_pairing_csv on a file that opens: cells[{x, y}] with the program
\* cleaned.
read_pairing_csv(rows) ==
    [pos \in DOMAIN rows |->
        [program |-> clean_program(rows[pos].program),
         combined_x |-> rows[pos].combined[1],
         combined_y |-> rows[pos].combined[2]]]

\* The frame of find_replicators at its entry.
FpEntryFrame(start_epoch, grid_x, grid_y, last_epoch, grid_width, grid_height, threads_arg) ==
    [pc |-> "entry", start_epoch |-> start_epoch, grid_x |-> grid_x, grid_y |-> grid_y,
     last_epoch |-> last_epoch, grid_width |-> grid_width, grid_height |-> grid_height,
     num_threads |-> threads_arg, cache |-> <<>>, replicators_by_epoch |-> <<>>,
     epoch |-> start_epoch, next_cells |-> <<>>, candidates |-> <<>>, ci |-> 0,
     futures |-> <<>>, di |-> 0]

\* find_replicators is not running.
\* test_epoch_by_epoch does not run.
SbsIdle == sbs = [pc |-> "idle"]

FpIdle ==
    /\ fp = [FpEntryFrame(0, 0, 0, 0, 0, 0, 0) EXCEPT !.pc = "idle"]
    /\ fp_log = [checks |-> <<>>, failed |-> {}]

\* check_replicator runs on program: the call is counted.
Checked(log, program) ==
    [log EXCEPT !.checks =
        [p \in DOMAIN @ \cup {program} |->
            IF p \in DOMAIN @ THEN (IF p = program THEN @[p] + 1 ELSE @[p]) ELSE 1]]

\* The file of start_epoch does not open: read_pairing_csv throws, outside
\* any try block.
FPEntryThrows ==
    /\ fp.pc = "entry"
    /\ fp' = [fp EXCEPT !.pc = "threw"]
    /\ fp_log' = [fp_log EXCEPT !.failed = @ \cup {fp.start_epoch}]

\* The start of find_replicators on a start file that opens: the initial
\* program is checked, cached, and inserted into replicators_by_epoch
\* whatever the check returned.
FPEntry(rows) ==
    /\ fp.pc = "entry"
    /\ LET cells == read_pairing_csv(rows)
           pos == <<fp.grid_x, fp.grid_y>>
       IN  IF pos \notin DOMAIN cells
           THEN /\ fp' = [fp EXCEPT !.pc = "returned"]
                /\ UNCHANGED fp_log
           ELSE LET initial_program == cells[pos].program
                    is_rep == Verdicts[initial_program]
                    initial == ProgramLocation(fp.start_epoch, fp.grid_x, fp.grid_y,
                                               initial_program)
                IN  /\ fp' = [fp EXCEPT
                                !.cache = cache_add(@, initial_program, is_rep),
                                !.replicators_by_epoch =
                                    Inserted(@, fp.start_epoch, initial),
                                !.pc = "loop"]
                    /\ fp_log' = Checked(fp_log, initial_program)

\* epoch < last_epoch fails: return replicators_by_epoch.
FPReturn ==
    /\ fp.pc = "loop"
    /\ fp.epoch >= fp.last_epoch
    /\ fp' = [fp EXCEPT !.pc = "returned"]
    /\ UNCHANGED fp_log

\* current_replicators = replicators_by_epoch[epoch] is empty: continue.
FPNothingToPropagate ==
    /\ fp.pc = "loop"
    /\ fp.epoch < fp.last_epoch
    /\ Touched(fp.replicators_by_epoch, fp.epoch)[fp.epoch] = {}
    /\ fp' = [fp EXCEPT !.replicators_by_epoch = Touched(@, fp.epoch),
                        !.epoch = @ + 1]
    /\ UNCHANGED fp_log

\* The catch block of the read of the next epoch: break, after which the
\* function returns.
OnReadError_Continues(frame) == [frame EXCEPT !.epoch = @ + 1]

OnReadError(frame) == [frame EXCEPT !.pc = "returned"]

\* The file of epoch + 1 does not open.
FPReadFails ==
    /\ fp.pc = "loop"
    /\ fp.epoch < fp.last_epoch
    /\ Touched(fp.replicators_by_epoch, fp.epoch)[fp.epoch] # {}
    /\ fp' = OnReadError(fp)
    /\ fp_log' = [fp_log EXCEPT !.failed = @ \cup {fp.epoch + 1}]

\* The file of epoch + 1 opens: the candidates are collected.
FPCandidates(rows) ==
    /\ fp.pc = "loop"
    /\ fp.epoch < fp.last_epoch
    /\ Touched(fp.replicators_by_epoch, fp.epoch)[fp.epoch] # {}
    /\ LET next_cells == read_pairing_csv(rows)
       IN  fp' = [fp EXCEPT
                    !.next_cells = next_cells,
                    !.candidates =
                        Candidates(InOrder(fp.replicators_by_epoch[fp.epoch]),
                                   next_cells, fp.epoch, fp.grid_width, fp.grid_height),
                    !.pc = "verify"]
    /\ UNCHANGED fp_log

\* The candidate the verification loop is at.
Candidate == fp.candidates[fp.ci + 1]

\* A future whose task has not run yet.
Future(candidate) == [candidate |-> candidate, ready |-> FALSE, value |-> FALSE]

\* What the main thread does with a result it got from a future.
Collected(frame, future) ==
    [frame EXCEPT
        !.cache = cache_add(@, future.candidate.program, future.value),
        !.replicators_by_epoch =
            IF future.value THEN Inserted(@, frame.epoch + 1, future.candidate) ELSE @]

\* The candidate's program is in the cache: it is inserted if the cache says
\* replicator, and the loop continues.
FPCached ==
    /\ fp.pc = "verify"
    /\ fp.ci < Len(fp.candidates)
    /\ cache_has(fp.cache, Candidate.program)
    /\ fp' = [fp EXCEPT
                !.replicators_by_epoch =
                    IF cache_is_replicator(fp.cache, Candidate.program)
                    THEN Inserted(@, fp.epoch + 1, Candidate) ELSE @,
                !.ci = @ + 1]
    /\ UNCHANGED fp_log

\* The program is not in the cache and fewer than num_threads futures are
\* held: the check is submitted.
FPSubmit ==
    /\ fp.pc = "verify"
    /\ fp.ci < Len(fp.candidates)
    /\ ~cache_has(fp.cache, Candidate.program)
    /\ Len(fp.futures) < fp.num_threads
    /\ fp' = [fp EXCEPT !.futures = Append(@, Future(Candidate)), !.ci = @ + 1]
    /\ UNCHANGED fp_log

\* The program is not in the cache and num_threads futures are held: the
\* first is waited for, collected and erased, and the check is submitted.
FPWaitFront ==
    /\ fp.pc = "verify"
    /\ fp.ci < Len(fp.candidates)
    /\ ~cache_has(fp.cache, Candidate.program)
    /\ Len(fp.futures) >= fp.num_threads
    /\ fp.futures[1].ready
    /\ fp' = [Collected(fp, fp.futures[1]) EXCEPT
                !.futures = Append(Tail(@), Future(Candidate)),
                !.ci = @ + 1]
    /\ UNCHANGED fp_log

\* The task of future k runs check_replicator on its candidate's program.
AsyncCheck(k) ==
    /\ fp.pc = "verify"
    /\ k \in DOMAIN fp.futures
    /\ ~fp.futures[k].ready
    /\ fp' = [fp EXCEPT !.futures[k].ready = TRUE,
                        !.futures[k].value = Verdicts[fp.futures[k].candidate.program]]
    /\ fp_log' = Checked(fp_log, fp.futures[k].candidate.program)

\* The loop over the remaining futures: the next one is waited for and
\* collected.
FPGet ==
    /\ fp.pc = "verify"
    /\ fp.ci = Len(fp.candidates)
    /\ fp.di < Len(fp.futures)
    /\ fp.futures[fp.di + 1].ready
    /\ fp' = [Collected(fp, fp.futures[fp.di + 1]) EXCEPT !.di = @ + 1]
    /\ UNCHANGED fp_log

\* The end of the loop body: the size of replicators_by_epoch[epoch + 1] is
\* printed, the locals are destroyed and epoch++.
FPEndEpoch ==
    /\ fp.pc = "verify"
    /\ fp.ci = Len(fp.candidates)
    /\ fp.di = Len(fp.futures)
    /\ fp' = [fp EXCEPT !.replicators_by_epoch = Touched(@, fp.epoch + 1),
                        !.epoch = @ + 1, !.next_cells = <<>>, !.candidates = <<>>,
                        !.ci = 0, !.futures = <<>>, !.di = 0, !.pc = "loop"]
    /\ UNCHANGED fp_log

(***************************************************************************)
(* The two machines run on identical inputs, as test_emulator_equivalence  *)
(* runs them: emulate first, emulate_w_tracer on the tokens of the same    *)
(* bytes next.  Each action is one evaluation of the callee's while loop.  *)
(***************************************************************************)
TapeLen == 3
MaxIter == 3

\* The bytes of the tapes that exercise control flow: both brackets, the zero
\* of the conditional jumps (itself no instruction), arithmetic and a head move.
Alphabet == {open_bracket, close_bracket, zero, ch_plus, ch_gt}

\* Every instruction, and the data bytes at which arithmetic wraps.
AllBytes == instructions \cup {zero, 0, 255}

DataBytes == {zero, 0, 255}

Positions == 0..(TapeLen - 1)

\* Tapes over Alphabet, and tapes with any byte at pc among data bytes.
InputTapes(pc) ==
    [1..TapeLen -> Alphabet]
        \cup {t \in [1..TapeLen -> AllBytes] :
                \A i \in 1..TapeLen : i # pc + 1 => t[i] \in DataBytes}

\* The tokens of a tape as the grid holds them after some epochs: cell i was
\* written by a mutation of epoch i + 1 at position TapeLen - 1 - i.
AgedTokens(tape) ==
    [i \in 1..Len(tape) |-> Token(i, Len(tape) - i, tape[i])]

\* initialize_tokens(tape) for every tape; aged tokens for the tapes that
\* are not over Alphabet.
InputTokens(tape) ==
    {initialize_tokens(tape)}
        \cup (IF tape \in [1..TapeLen -> Alphabet] THEN {} ELSE {AgedTokens(tape)})

InitEmu ==
    \E h0 \in Positions, h1 \in Positions, pc \in Positions, mi \in 0..MaxIter :
      \E tape \in InputTapes(pc) :
        \E tokens \in InputTokens(tape) :
          /\ args = [tape_bytes |-> tape, tape_tokens |-> tokens,
                     head0_pos |-> h0, head1_pos |-> h1, pc_pos |-> pc]
          /\ max_iter = mi
          /\ em = EmulateEntry(tape, h0, h1, pc)
          /\ tr = TracerEntry(tokens, h0, h1, pc)
          /\ PairIdle
          /\ DriverIdle
          /\ ServerIdle
          /\ FpIdle
          /\ SbsIdle

EmulateStep ==
    /\ ~em.returned
    /\ em' = EmulateIter(em, max_iter)
    /\ UNCHANGED <<tr, max_iter, args, pairVars, gridVars, serverVars, fpVars, sbsVars>>

EmulateWTracerStep ==
    /\ em.returned
    /\ ~tr.returned
    /\ tr' = TracerIter(tr, max_iter)
    /\ UNCHANGED <<em, max_iter, args, pairVars, gridVars, serverVars, fpVars, sbsVars>>

NextEmu == EmulateStep \/ EmulateWTracerStep

Spec == InitEmu /\ [][NextEmu]_vars

\* The loop of a synchronous call keeps running until the call returns.
SpecFair == Spec /\ WF_vars(NextEmu)

(***************************************************************************)
(* Properties of the byte-machine.                                         *)
(***************************************************************************)
BothReturned == em.returned /\ tr.returned

\* C1: the iteration count emulate and emulate_w_tracer return is at most
\* max_iter, for every tape, every in-range head0, head1, pc and max_iter >= 0.
C1_IterationsAtMostMaxIter ==
    /\ em.returned => em.iteration <= max_iter
    /\ tr.returned => tr.iteration <= max_iter

\* Both calls returned having used the whole budget of a positive max_iter.
C1_Witness ==
    /\ BothReturned
    /\ max_iter > 0
    /\ em.iteration = max_iter
    /\ tr.iteration = max_iter

\* C2: every execution terminates: both calls return after finitely many
\* steps, and what they return is one of the four result states.
C2_Terminates ==
    /\ <>BothReturned
    /\ [](em.returned => em.state \in ResultStates)
    /\ [](tr.returned => tr.state \in ResultStates)

\* Both calls ran out of iterations on a tape they could have walked through
\* in max_iter steps: a taken ']' moved pc backwards.
C2_Witness ==
    /\ BothReturned
    /\ em.state = STATE_TERMINATED
    /\ tr.state = STATE_TERMINATED
    /\ max_iter >= TapeLen
    /\ \E i \in 1..TapeLen : em.tape[i] = close_bracket

\* C3: on identical inputs the byte projection of the tape emulate_w_tracer
\* returns equals the tape emulate returns, whatever the result state.
C3_SameTape ==
    BothReturned =>
        /\ Len(tr.tape) = Len(em.tape)
        /\ \A i \in 1..Len(em.tape) : get_char(tr.tape[i]) = em.tape[i]

\* Both calls returned a tape they had changed, having ended in an error.
C3_Witness ==
    /\ BothReturned
    /\ em.tape # args.tape_bytes
    /\ em.state = STATE_UNMATCHED_CLOSE
    /\ tr.state = STATE_UNMATCHED_CLOSE

ErrorStates == {STATE_UNMATCHED_OPEN, STATE_UNMATCHED_CLOSE}

\* C7 as amended: a returned state is Finished iff pc >= |t|, and Terminated
\* iff the iteration count equals max_iter and the last instruction neither
\* moved pc to |t| nor failed on an unmatched bracket.
C7_StateOfResult ==
    /\ em.returned =>
        /\ em.state = STATE_FINISHED <=> em.pc_pos >= Len(em.tape)
        /\ em.state = STATE_TERMINATED <=>
              /\ em.iteration = max_iter
              /\ em.pc_pos < Len(em.tape)
              /\ em.state \notin ErrorStates
    /\ tr.returned =>
        /\ tr.state = STATE_FINISHED <=> tr.pc_pos >= Len(tr.tape)
        /\ tr.state = STATE_TERMINATED <=>
              /\ tr.iteration = max_iter
              /\ tr.pc_pos < Len(tr.tape)
              /\ tr.state \notin ErrorStates

\* Both calls walked off the tape with their last allowed instruction.
C7_Witness ==
    /\ BothReturned
    /\ max_iter = MaxIter
    /\ em.iteration = max_iter /\ em.state = STATE_FINISHED
    /\ tr.iteration = max_iter /\ tr.state = STATE_FINISHED
    /\ em.skipped = 0

\* C7 as claimed: Finished iff pc >= |t|, Terminated iff iterations = max_iter.
C7_AsClaimed ==
    /\ em.returned =>
        /\ em.state = STATE_FINISHED <=> em.pc_pos >= Len(em.tape)
        /\ em.state = STATE_TERMINATED <=> em.iteration = max_iter
    /\ tr.returned =>
        /\ tr.state = STATE_FINISHED <=> tr.pc_pos >= Len(tr.tape)
        /\ tr.state = STATE_TERMINATED <=> tr.iteration = max_iter

\* The number of positions of from..to (counted from 0) that hold byte b.
Count(bytes, from, to, b) == Cardinality({k \in from..to : At(bytes, k) = b})

\* No ']' after pc closes the '[' at pc: the depth, 1 at pc, never returns to 0.
NoMatchingClose(bytes, pc) ==
    \A j \in (pc + 1)..(Len(bytes) - 1) :
        1 + Count(bytes, pc + 1, j, open_bracket)
          - Count(bytes, pc + 1, j, close_bracket) # 0

\* No '[' before pc opens the ']' at pc.
NoMatchingOpen(bytes, pc) ==
    \A j \in 0..(pc - 1) :
        1 + Count(bytes, j, pc - 1, close_bracket)
          - Count(bytes, j, pc - 1, open_bracket) # 0

\* The machine m with byte tape bytes is about to execute a '[' (a ']') whose
\* jump is taken and has no match.
OpenFails(m, bytes) ==
    /\ ~m.returned
    /\ m.iteration < max_iter
    /\ At(bytes, m.pc_pos) = open_bracket
    /\ At(bytes, m.head0_pos) = zero
    /\ NoMatchingClose(bytes, m.pc_pos)

CloseFails(m, bytes) ==
    /\ ~m.returned
    /\ m.iteration < max_iter
    /\ At(bytes, m.pc_pos) = close_bracket
    /\ At(bytes, m.head0_pos) # zero
    /\ NoMatchingOpen(bytes, m.pc_pos)

\* The step from m to n ends the run with state st and leaves tape, heads and pc.
FailsInPlace(m, n, st) ==
    /\ n.returned
    /\ n.state = st
    /\ n.tape = m.tape
    /\ n.head0_pos = m.head0_pos
    /\ n.head1_pos = m.head1_pos
    /\ n.pc_pos = m.pc_pos

\* C8: a taken '[' with no matching ']' ends the run at once with the
\* unmatched-open error, a taken ']' with no matching '[' with the
\* unmatched-close error; the failing step writes no cell and moves neither
\* head nor pc, in both machines.
C8_UnmatchedBracketStep ==
    [][/\ (EmulateStep /\ OpenFails(em, em.tape))
            => FailsInPlace(em, em', STATE_UNMATCHED_OPEN)
       /\ (EmulateStep /\ CloseFails(em, em.tape))
            => FailsInPlace(em, em', STATE_UNMATCHED_CLOSE)
       /\ (EmulateWTracerStep /\ OpenFails(tr, tokens_to_bytes(tr.tape)))
            => FailsInPlace(tr, tr', STATE_UNMATCHED_OPEN)
       /\ (EmulateWTracerStep /\ CloseFails(tr, tokens_to_bytes(tr.tape)))
            => FailsInPlace(tr, tr', STATE_UNMATCHED_CLOSE)]_vars

\* Both calls failed on a '[' that was not their first instruction.
C8_Witness ==
    /\ BothReturned
    /\ em.state = STATE_UNMATCHED_OPEN
    /\ tr.state = STATE_UNMATCHED_OPEN
    /\ em.iteration >= 1
    /\ At(em.tape, em.pc_pos) = open_bracket
    /\ At(em.tape, em.head0_pos) = zero

\* emulate_w_tracer is about to execute the instruction byte b.
TracerExecutes(b) ==
    /\ EmulateWTracerStep
    /\ tr.iteration < max_iter
    /\ get_char(At(tr.tape, tr.pc_pos)) = b

\* The tokens of the tape are unchanged but for the one at position p.
OnlyCellChanges(p) ==
    /\ Len(tr'.tape) = Len(tr.tape)
    /\ \A i \in 0..(Len(tr.tape) - 1) : i # p => At(tr'.tape, i) = At(tr.tape, i)

\* C9: in the tokenized machine '.' makes the token at head1 equal to the
\* token at head0 in epoch, origin position and byte, ',' makes the token at
\* head0 equal to the token at head1, and no other cell changes.
C9_CopyWholeToken ==
    [][/\ TracerExecutes(ch_dot) =>
            /\ At(tr'.tape, tr.head1_pos) = At(tr.tape, tr.head0_pos)
            /\ OnlyCellChanges(tr.head1_pos)
       /\ TracerExecutes(ch_comma) =>
            /\ At(tr'.tape, tr.head0_pos) = At(tr.tape, tr.head1_pos)
            /\ OnlyCellChanges(tr.head0_pos)]_vars

\* A '.' has copied a token over one of another epoch and another position.
C9_Witness ==
    /\ tr.iteration = 1
    /\ At(args.tape_bytes, args.pc_pos) = ch_dot
    /\ args.head0_pos # args.head1_pos
    /\ get_epoch(At(args.tape_tokens, args.head1_pos))
         # get_epoch(At(args.tape_tokens, args.head0_pos))
    /\ get_position(At(args.tape_tokens, args.head1_pos))
         # get_position(At(args.tape_tokens, args.head0_pos))
    /\ At(tr.tape, tr.head1_pos) = At(args.tape_tokens, args.head0_pos)

\* C10: in the tokenized machine '+' and '-' change only the byte of the
\* token at head0, by +1 and -1 modulo 256; its epoch and origin position and
\* every other token are unchanged.
C10_ArithmeticTouchesByteOnly ==
    [][/\ TracerExecutes(ch_plus) =>
            /\ At(tr'.tape, tr.head0_pos) =
                 [At(tr.tape, tr.head0_pos) EXCEPT !.char = (@ + 1) % 256]
            /\ OnlyCellChanges(tr.head0_pos)
       /\ TracerExecutes(ch_minus) =>
            /\ At(tr'.tape, tr.head0_pos) =
                 [At(tr.tape, tr.head0_pos) EXCEPT !.char = (@ + 255) % 256]
            /\ OnlyCellChanges(tr.head0_pos)]_vars

\* A '+' has wrapped the byte 255 of a token of a later epoch to 0.
C10_Witness ==
    /\ tr.iteration = 1
    /\ At(args.tape_bytes, args.pc_pos) = ch_plus
    /\ At(args.tape_tokens, args.head0_pos).char = 255
    /\ At(args.tape_tokens, args.head0_pos).epoch > 0
    /\ At(tr.tape, tr.head0_pos) =
         [At(args.tape_tokens, args.head0_pos) EXCEPT !.char = 0]

\* The run starts with pc on the last cell of the tape and max_iter >= 1.
StartsAtLastCell == args.pc_pos = Len(args.tape_bytes) - 1 /\ max_iter >= 1

\* The byte at pc is a bracket whose jump is taken: a '[' with '0' at head 0
\* or a ']' with another byte there.
JumpTakenAtStart ==
    LET b == At(args.tape_bytes, args.pc_pos)
        h == At(args.tape_bytes, args.head0_pos)
    IN  \/ b = open_bracket /\ h = zero
        \/ b = close_bracket /\ h # zero

\* C22 as stated: for any tape, in-range heads and max_iter >= 1, a run
\* started with pc = |t| - 1 ends Finished after at most one instruction.
C22_AsClaimed ==
    (BothReturned /\ StartsAtLastCell) =>
        /\ em.state = STATE_FINISHED /\ em.iteration <= 1
        /\ tr.state = STATE_FINISHED /\ tr.iteration <= 1

\* C22, amended: a run started with pc = |t| - 1 and max_iter >= 1 ends
\* Finished after exactly one instruction unless the byte there is a bracket
\* whose jump is taken; a taken '[' there ends the run with Unmatched [, and
\* a taken ']' ends it with Unmatched ] or jumps back, so that the run
\* executes more than one instruction.
C22_FinishedUnlessJumpTaken ==
    (BothReturned /\ StartsAtLastCell) =>
        LET b == At(args.tape_bytes, args.pc_pos)
        IN  /\ ~JumpTakenAtStart =>
                /\ em.state = STATE_FINISHED /\ em.iteration = 1
                /\ tr.state = STATE_FINISHED /\ tr.iteration = 1
            /\ (JumpTakenAtStart /\ b = open_bracket) =>
                /\ em.state = STATE_UNMATCHED_OPEN
                /\ tr.state = STATE_UNMATCHED_OPEN
            /\ (JumpTakenAtStart /\ b = close_bracket) =>
                /\ em.state = STATE_UNMATCHED_CLOSE \/ (max_iter > 1 => em.iteration > 1)
                /\ tr.state = STATE_UNMATCHED_CLOSE \/ (max_iter > 1 => tr.iteration > 1)

\* Both machines have finished after one instruction: a ']' on the last
\* cell that fell through because head 0 reads '0'.
C22_Witness ==
    /\ BothReturned
    /\ StartsAtLastCell
    /\ At(args.tape_bytes, args.pc_pos) = close_bracket
    /\ At(args.tape_bytes, args.head0_pos) = zero
    /\ em.state = STATE_FINISHED /\ em.iteration = 1
    /\ tr.state = STATE_FINISHED /\ tr.iteration = 1

\* A ']' on the last cell jumped back to its '[' and the run went on.
C22_JumpedBack ==
    /\ BothReturned
    /\ StartsAtLastCell
    /\ At(args.tape_bytes, args.pc_pos) = close_bracket
    /\ em.iteration > 1
    /\ tr.iteration > 1

(***************************************************************************)
(* The scenario of test_simple_decrement.cpp: both machines run on the     *)
(* tapes of its length over its two bytes, '-' and '0', from pc = 0 with   *)
(* its max_iter; the test's own call has both heads at 0.                  *)
(***************************************************************************)
\* std::string program = "---0".
decrement_program == <<ch_minus, ch_minus, ch_minus, zero>>

\* emulate(tape1, 0, 0, 0, 100, 0).
decrement_max_iter == 100

InitDecrement ==
    \E tape \in [1..Len(decrement_program) -> {ch_minus, zero}] :
      \E h0 \in 0..(Len(tape) - 1), h1 \in 0..(Len(tape) - 1) :
        /\ args = [tape_bytes |-> tape,
                   tape_tokens |-> initialize_tokens_with_epoch(tape, 0),
                   head0_pos |-> h0, head1_pos |-> h1, pc_pos |-> 0]
        /\ max_iter = decrement_max_iter
        /\ em = EmulateEntry(tape, h0, h1, 0)
        /\ tr = TracerEntry(initialize_tokens_with_epoch(tape, 0), h0, h1, 0)
        /\ PairIdle
        /\ DriverIdle
        /\ ServerIdle
        /\ FpIdle
        /\ SbsIdle

SpecDecrement == InitDecrement /\ [][NextEmu]_vars

\* The call of the test has returned from both machines.
DecrementRan ==
    /\ BothReturned
    /\ args.tape_bytes = decrement_program
    /\ args.head0_pos = 0
    /\ args.head1_pos = 0

InTape(p, n) == p \in 0..(n - 1)

\* C24 as stated: in every machine state of an execution started in range,
\* and in the returned result, head0, head1 and pc are non-negative and
\* strictly less than |t|.
C24_AsClaimed ==
    /\ InTape(em.head0_pos, Len(em.tape))
    /\ InTape(em.head1_pos, Len(em.tape))
    /\ InTape(em.pc_pos, Len(em.tape))
    /\ InTape(tr.head0_pos, Len(tr.tape))
    /\ InTape(tr.head1_pos, Len(tr.tape))
    /\ InTape(tr.pc_pos, Len(tr.tape))

\* C24, amended: in every machine state of an execution started in range,
\* and in the returned result, head0 and head1 are non-negative and strictly
\* less than |t|; pc is so whenever an instruction is fetched and in every
\* result whose state is not Finished, and pc = |t| exactly in the state
\* that ends a Finished run and in its result; the tape keeps its length.
C24_HeadsInTapePcAtMostEnd ==
    /\ Len(em.tape) = Len(args.tape_bytes)
    /\ Len(tr.tape) = Len(args.tape_tokens)
    /\ InTape(em.head0_pos, Len(em.tape))
    /\ InTape(em.head1_pos, Len(em.tape))
    /\ InTape(tr.head0_pos, Len(tr.tape))
    /\ InTape(tr.head1_pos, Len(tr.tape))
    /\ IF em.returned /\ em.state = STATE_FINISHED
       THEN em.pc_pos = Len(em.tape)
       ELSE InTape(em.pc_pos, Len(em.tape))
    /\ IF tr.returned /\ tr.state = STATE_FINISHED
       THEN tr.pc_pos = Len(tr.tape)
       ELSE InTape(tr.pc_pos, Len(tr.tape))

\* emulate_w_tracer has returned a Finished result whose pc_pos is |t|,
\* after head 0 wrapped from the last cell to cell 0.
C24_Witness ==
    /\ BothReturned
    /\ tr.state = STATE_FINISHED
    /\ tr.pc_pos = Len(tr.tape)
    /\ em.pc_pos = Len(em.tape)
    /\ args.head0_pos = Len(tr.tape) - 1
    /\ tr.head0_pos = 0
    /\ em.head0_pos = 0

\* emulate executes the byte b as its next instruction.
EmulateExecutes(b) ==
    /\ ~em.returned
    /\ em.iteration < max_iter
    /\ At(em.tape, em.pc_pos) = b
    /\ em' # em

\* The position one to the left and one to the right of p on a tape of n
\* cells, the ends joined.
LeftOf(p, n) == IF p = 0 THEN n - 1 ELSE p - 1

RightOf(p, n) == IF p = n - 1 THEN 0 ELSE p + 1

\* C25: head movement wraps around the tape, in both machines: '<' takes
\* head0 from 0 to |t| - 1 and otherwise one to the left, '>' takes it from
\* |t| - 1 to 0 and otherwise one to the right, '{' and '}' do the same to
\* head1; a head-move instruction changes no tape cell and not the other
\* head.
C25_HeadsWrap ==
    [][/\ EmulateExecutes(ch_lt) =>
            /\ em'.head0_pos = LeftOf(em.head0_pos, Len(em.tape))
            /\ em'.head1_pos = em.head1_pos /\ em'.tape = em.tape
       /\ EmulateExecutes(ch_gt) =>
            /\ em'.head0_pos = RightOf(em.head0_pos, Len(em.tape))
            /\ em'.head1_pos = em.head1_pos /\ em'.tape = em.tape
       /\ EmulateExecutes(ch_lbrace) =>
            /\ em'.head1_pos = LeftOf(em.head1_pos, Len(em.tape))
            /\ em'.head0_pos = em.head0_pos /\ em'.tape = em.tape
       /\ EmulateExecutes(ch_rbrace) =>
            /\ em'.head1_pos = RightOf(em.head1_pos, Len(em.tape))
            /\ em'.head0_pos = em.head0_pos /\ em'.tape = em.tape
       /\ TracerExecutes(ch_lt) =>
            /\ tr'.head0_pos = LeftOf(tr.head0_pos, Len(tr.tape))
            /\ tr'.head1_pos = tr.head1_pos /\ tr'.tape = tr.tape
       /\ TracerExecutes(ch_gt) =>
            /\ tr'.head0_pos = RightOf(tr.head0_pos, Len(tr.tape))
            /\ tr'.head1_pos = tr.head1_pos /\ tr'.tape = tr.tape
       /\ TracerExecutes(ch_lbrace) =>
            /\ tr'.head1_pos = LeftOf(tr.head1_pos, Len(tr.tape))
            /\ tr'.head0_pos = tr.head0_pos /\ tr'.tape = tr.tape
       /\ TracerExecutes(ch_rbrace) =>
            /\ tr'.head1_pos = RightOf(tr.head1_pos, Len(tr.tape))
            /\ tr'.head0_pos = tr.head0_pos /\ tr'.tape = tr.tape]_vars

\* Both machines have executed a '<' with head0 = 0: head0 is |t| - 1, head1
\* and the tape are as they were.
C25_Witness ==
    /\ em.iteration = 1
    /\ tr.iteration = 1
    /\ At(args.tape_bytes, args.pc_pos) = ch_lt
    /\ args.head0_pos = 0
    /\ em.head0_pos = Len(em.tape) - 1
    /\ tr.head0_pos = Len(tr.tape) - 1
    /\ em.head1_pos = args.head1_pos
    /\ tr.head1_pos = args.head1_pos
    /\ em.tape = args.tape_bytes
    /\ tr.tape = args.tape_tokens

\* Both machines have executed a '}' with head1 = |t| - 1: head1 is 0.
C25_Head1WrapsForward ==
    /\ em.iteration = 1
    /\ tr.iteration = 1
    /\ At(args.tape_bytes, args.pc_pos) = ch_rbrace
    /\ args.head1_pos = Len(em.tape) - 1
    /\ em.head1_pos = 0
    /\ tr.head1_pos = 0

\* The epochs the tokens of a tape are created with: the first, a later one
\* and the largest the model's integers hold, all below 2^40.
TokenEpochs == {0, 1, 16777216, 2147483647}

BracketTapeLen == 5

BracketBytes == {open_bracket, close_bracket, zero, ch_plus}

InitBrackets ==
    \E tape \in [1..BracketTapeLen -> BracketBytes] :
      \E h0 \in 0..(BracketTapeLen - 1) :
        /\ args = [tape_bytes |-> tape, tape_tokens |-> initialize_tokens(tape),
                   head0_pos |-> h0, head1_pos |-> 0, pc_pos |-> 0]
        /\ max_iter = 2 * BracketTapeLen
        /\ em = EmulateEntry(tape, h0, 0, 0)
        /\ tr = TracerEntry(initialize_tokens(tape), h0, 0, 0)
        /\ PairIdle
        /\ DriverIdle
        /\ ServerIdle
        /\ FpIdle
        /\ SbsIdle

SpecBrackets == InitBrackets /\ [][NextEmu]_vars

\* The depth counter of the forward scan from the '[' at pc, after position
\* j: 1, +1 for each '[' and -1 for each ']' in pc+1..j.
DepthForward(bytes, pc, j) ==
    1 + Count(bytes, pc + 1, j, open_bracket) - Count(bytes, pc + 1, j, close_bracket)

\* The depth counter of the backward scan from the ']' at pc, after position j.
DepthBackward(bytes, pc, j) ==
    1 + Count(bytes, j, pc - 1, close_bracket) - Count(bytes, j, pc - 1, open_bracket)

\* j is the first position after pc at which the depth returns to zero.
IsForwardMatch(bytes, pc, j) ==
    /\ j \in (pc + 1)..(Len(bytes) - 1)
    /\ DepthForward(bytes, pc, j) = 0
    /\ \A k \in (pc + 1)..(j - 1) : DepthForward(bytes, pc, k) # 0

\* j is the first position before pc at which the depth returns to zero.
IsBackwardMatch(bytes, pc, j) ==
    /\ j \in 0..(pc - 1)
    /\ DepthBackward(bytes, pc, j) = 0
    /\ \A k \in (j + 1)..(pc - 1) : DepthBackward(bytes, pc, k) # 0

\* The step from m to n leaves tape and heads, and the instruction n
\* executes next is the one after position j; there being none, the run has
\* ended Finished.
ContinuesAfter(m, n, j) ==
    /\ n.pc_pos = j + 1
    /\ n.tape = m.tape
    /\ n.head0_pos = m.head0_pos
    /\ n.head1_pos = m.head1_pos
    /\ IF j + 1 >= Len(m.tape)
       THEN n.returned /\ n.state = STATE_FINISHED
       ELSE ~n.returned

\* What a step of the machine m with byte tape bytes does on a bracket, the
\* match sought on bytes, the tape as it is now.
BracketStep(m, n, bytes) ==
    LET pc == m.pc_pos
        runs == ~m.returned /\ m.iteration < max_iter
        h == At(bytes, m.head0_pos)
    IN  /\ (runs /\ At(bytes, pc) = open_bracket /\ h = zero) =>
              \A j \in 0..(Len(bytes) - 1) :
                  IsForwardMatch(bytes, pc, j) => ContinuesAfter(m, n, j)
        /\ (runs /\ At(bytes, pc) = close_bracket /\ h # zero) =>
              \A j \in 0..(Len(bytes) - 1) :
                  IsBackwardMatch(bytes, pc, j) => ContinuesAfter(m, n, j)
        /\ (runs /\ At(bytes, pc) = open_bracket /\ h # zero) => ContinuesAfter(m, n, pc)
        /\ (runs /\ At(bytes, pc) = close_bracket /\ h = zero) => ContinuesAfter(m, n, pc)

\* C28: in both machines a taken '[' moves pc to the first later position
\* at which the depth counter (1 at the bracket, +1 on '[', -1 on ']')
\* returns to zero, a taken ']' to the first earlier such position, and the
\* pc + 1 that follows makes the next instruction the one after the matched
\* bracket; an untaken bracket falls through to pc + 1; the match is sought
\* on the tape as it is when the bracket executes.
C28_JumpToMatch ==
    [][/\ EmulateStep => BracketStep(em, em', em.tape)
       /\ EmulateWTracerStep => BracketStep(tr, tr', tokens_to_bytes(tr.tape))]_vars

\* Both machines have jumped from the outer '[' of a tape that begins
\* "[[]]" over the inner pair to the outer ']', with head 0 on a '0':
\* emulate went on with the cell after it and finished with its second
\* instruction, emulate_w_tracer is about to execute that cell.
C28_Witness ==
    /\ SubSeq(args.tape_bytes, 1, 4) = <<open_bracket, open_bracket, close_bracket, close_bracket>>
    /\ At(args.tape_bytes, args.head0_pos) = zero
    /\ em.returned /\ em.iteration = 2 /\ em.state = STATE_FINISHED
    /\ ~tr.returned /\ tr.iteration = 1 /\ tr.pc_pos = 4

\* A ']' whose '[' a '+' has changed to another byte finds no match,
\* although the tape the run was given has one: the scan reads the tape as
\* it is now.
C28_RescannedOnCurrentTape ==
    /\ BothReturned
    /\ em.state = STATE_UNMATCHED_CLOSE
    /\ tr.state = STATE_UNMATCHED_CLOSE
    /\ \E j \in 0..(Len(args.tape_bytes) - 1) :
         /\ IsBackwardMatch(args.tape_bytes, tr.pc_pos, j)
         /\ At(em.tape, j) = open_bracket + 1

\* emulate_w_tracer, started at pc = 0, is back at cell 1 after three
\* instructions: the ']' at cell 2 has jumped to the '[' at cell 0, and the
\* instruction after the '[' is next.
C28_JumpedBack ==
    /\ ~tr.returned
    /\ tr.iteration = 3
    /\ tr.pc_pos = 1
    /\ get_char(At(tr.tape, 0)) = open_bracket
    /\ get_char(At(tr.tape, 2)) = close_bracket

C29_SameButForFailingStep ==
    BothReturned =>
        /\ em.state = tr.state
        /\ em.skipped = tr.skipped
        /\ tr.iteration = IF em.state \in ErrorStates THEN em.iteration + 1
                          ELSE em.iteration

C29_NoInstruction ==
    /\ BothReturned
    /\ max_iter = 0
    /\ em.state = STATE_TERMINATED /\ tr.state = STATE_TERMINATED
    /\ em.iteration = 0 /\ tr.iteration = 0

\* The (epoch, origin_position) of a token.
Provenance(t) == <<get_epoch(t), get_position(t)>>

\* C30: a tokenized execution creates no provenance: every (epoch,
\* origin_position) pair carried by a token of the tape, at any moment and at
\* the return, is carried by some token of the input tape; and a cell keeps
\* its (epoch, origin_position) on every step other than a '.' that writes
\* it (the cell at head 1) or a ',' that writes it (the cell at head 0), so
\* that a cell never written by '.' or ',' has its own pair at the end.
C30_NoNewProvenance ==
    /\ [](\A i \in 0..(Len(tr.tape) - 1) :
            \E j \in 0..(Len(args.tape_tokens) - 1) :
               Provenance(At(tr.tape, i)) = Provenance(At(args.tape_tokens, j)))
    /\ [][\A i \in 0..(Len(tr.tape) - 1) :
            Provenance(At(tr'.tape, i)) # Provenance(At(tr.tape, i)) =>
               \/ TracerExecutes(ch_dot) /\ i = tr.head1_pos
               \/ TracerExecutes(ch_comma) /\ i = tr.head0_pos]_vars

\* A '+' has changed the byte of a token of a later epoch, whose epoch and
\* position are as they were, and a '.' elsewhere would have had another
\* pair to copy: the tokens of the input carry different pairs.
C30_Witness ==
    /\ tr.iteration = 1
    /\ At(args.tape_bytes, args.pc_pos) = ch_plus
    /\ At(args.tape_tokens, args.head0_pos).epoch > 0
    /\ get_char(At(tr.tape, tr.head0_pos)) # get_char(At(args.tape_tokens, args.head0_pos))
    /\ Provenance(At(tr.tape, tr.head0_pos)) = Provenance(At(args.tape_tokens, args.head0_pos))

\* A '.' has put the pair of the cell at head 0 on the cell at head 1,
\* whose own pair was another.
C30_CopiedProvenance ==
    /\ tr.iteration = 1
    /\ At(args.tape_bytes, args.pc_pos) = ch_dot
    /\ args.head0_pos # args.head1_pos
    /\ Provenance(At(tr.tape, args.head1_pos)) = Provenance(At(args.tape_tokens, args.head0_pos))
    /\ Provenance(At(tr.tape, args.head1_pos)) # Provenance(At(args.tape_tokens, args.head1_pos))

(***************************************************************************)
(* create_spatial_pairs called on grids of every size within the bounds.   *)
(***************************************************************************)
MaxWidth == 3
MaxHeight == 2
MaxCells == 6
MaxRadius == 2

EmuIdle ==
    /\ em = [EmulateEntry(<<>>, 0, 0, 0) EXCEPT !.returned = TRUE]
    /\ tr = [TracerEntry(<<>>, 0, 0, 0) EXCEPT !.returned = TRUE]
    /\ max_iter = 0
    /\ args = [tape_bytes |-> <<>>, tape_tokens |-> <<>>,
               head0_pos |-> 0, head1_pos |-> 0, pc_pos |-> 0]

InitPair ==
    /\ EmuIdle
    /\ DriverIdle
    /\ ServerIdle
    /\ FpIdle
    /\ SbsIdle
    /\ \E w \in 1..MaxWidth, h \in 1..MaxHeight, r \in 0..MaxRadius :
         /\ w * h <= MaxCells
         /\ PairEntry(w, h, r)

NextPair ==
    \/ Shuffle /\ UNCHANGED <<emuVars, fpVars, sbsVars, serverVars, gridVars>>
    \/ VisitCell /\ UNCHANGED <<emuVars, fpVars, sbsVars, serverVars, gridVars>>

SpecPair == InitPair /\ [][NextPair]_vars

\* The number of records that mention cell c, as a component of a proper
\* pair or as the cell of a mutation-only record.
Mentions(c) ==
    Cardinality({i \in 1..Len(pairs) : pairs[i].first = c})
      + Cardinality({i \in 1..Len(pairs) : pairs[i].second = c})

\* C4: the records create_spatial_pairs returns mention every cell of the
\* grid exactly once, and no proper pair joins a cell with itself.
C4_EveryCellOnce ==
    pstage = "returned" =>
        /\ \A c \in 0..(width * height - 1) : Mentions(c) = 1
        /\ \A i \in 1..Len(pairs) :
              /\ pairs[i].second \in 0..(width * height - 1)
              /\ pairs[i].first \in (-1)..(width * height - 1)
              /\ pairs[i].first # pairs[i].second

\* A returned pairing with a proper pair and, although the radius is
\* positive, a mutation-only record.
C4_Witness ==
    /\ pstage = "returned"
    /\ radius >= 1
    /\ width * height >= 3
    /\ \E i \in 1..Len(pairs) : pairs[i].first = -1
    /\ \E i \in 1..Len(pairs) : pairs[i].first # -1

\* The Manhattan distance of the cells a and b of a grid of width w, on
\* (x, y) = (index mod w, index div w), with no wrap-around.
ManhattanDistance(a, b, w) ==
    LET ax == a % w
        bx == b % w
        ay == a \div w
        by == b \div w
    IN  (IF ax >= bx THEN ax - bx ELSE bx - ax)
          + (IF ay >= by THEN ay - by ELSE by - ay)

\* C20: every proper pair create_spatial_pairs has emitted joins two distinct
\* cells of the grid whose Manhattan distance, without wrap-around at the
\* edges, is at least 1 and at most the radius.
C20_PairsWithinRadius ==
    \A i \in 1..Len(pairs) :
        pairs[i].first # -1 =>
            /\ pairs[i].first \in 0..(width * height - 1)
            /\ pairs[i].second \in 0..(width * height - 1)
            /\ pairs[i].first # pairs[i].second
            /\ ManhattanDistance(pairs[i].first, pairs[i].second, width) >= 1
            /\ ManhattanDistance(pairs[i].first, pairs[i].second, width) <= radius

\* A returned pairing of a grid of two rows with a pair at distance exactly
\* the radius 2 across the rows, and a pair at distance 1 although the last
\* and the first cell of a row are adjacent indices.
C20_Witness ==
    /\ pstage = "returned"
    /\ radius = 2
    /\ height = 2
    /\ \E i \in 1..Len(pairs) :
         /\ pairs[i].first # -1
         /\ pairs[i].first \div width # pairs[i].second \div width
         /\ ManhattanDistance(pairs[i].first, pairs[i].second, width) = 2
    /\ \E i \in 1..Len(pairs) :
         /\ pairs[i].first # -1
         /\ ManhattanDistance(pairs[i].first, pairs[i].second, width) = 1

\* The cells of the grid within Manhattan distance 1..radius of c that are
\* not taken.
FreeNeighbors(c) ==
    {d \in 0..(width * height - 1) :
        /\ d # c
        /\ ManhattanDistance(c, d, width) <= radius
        /\ ~taken[d]}

\* The loop of create_spatial_pairs visits a cell that is not taken.
VisitsUntaken ==
    /\ pstage = "visiting"
    /\ visit < Len(cell_order)
    /\ visit' = visit + 1
    /\ ~taken[cell_order[visit + 1]]

\* C21: when create_spatial_pairs visits an untaken cell c, it appends
\* exactly one record: the mutation-only record (-1, c) if every in-grid
\* cell within distance r of c is taken, and otherwise a proper pair of c
\* with a free neighbour; c is in no earlier record, and a visit of a taken
\* cell appends nothing.
C21_MutationOnlyIffNoFreeNeighbor ==
    [][/\ VisitsUntaken =>
            LET c == cell_order[visit + 1]
            IN  /\ \A i \in 1..Len(pairs) : pairs[i].first # c /\ pairs[i].second # c
                /\ IF FreeNeighbors(c) = {}
                   THEN pairs' = Append(pairs, Record(-1, c))
                   ELSE \E d \in FreeNeighbors(c) : pairs' = Append(pairs, Record(c, d))
       /\ (pstage = "visiting" /\ ~VisitsUntaken) => pairs' = pairs]_vars

\* A returned pairing, with a positive radius, in which a cell whose
\* neighbours were all taken got a mutation-only record after two proper
\* pairs were made.
C21_Witness ==
    /\ pstage = "returned"
    /\ radius >= 1
    /\ Len(pairs) >= 3
    /\ pairs[1].first # -1
    /\ pairs[2].first # -1
    /\ pairs[Len(pairs)].first = -1
    /\ Mentions(pairs[Len(pairs)].second) = 1

\* The cells of the mutation-only records.
MutationOnlyCells == {pairs[i].second : i \in {j \in 1..Len(pairs) : pairs[j].first = -1}}

\* C32: the pairing is maximal: in the records create_spatial_pairs returns
\* no two mutation-only cells lie within Manhattan distance r of each
\* other, whatever the visiting permutation and the neighbours chosen.
C32_PairingIsMaximal ==
    pstage = "returned" =>
        \A c \in MutationOnlyCells, e \in MutationOnlyCells :
            c # e => ManhattanDistance(c, e, width) > radius

\* A returned pairing with a positive radius and two mutation-only cells,
\* on a grid where proper pairs were made.
C32_Witness ==
    /\ pstage = "returned"
    /\ radius >= 1
    /\ Cardinality(MutationOnlyCells) >= 2
    /\ \E i \in 1..Len(pairs) : pairs[i].first # -1

\* Where the cell c stands in the shuffled cell_order, counted from 1.
VisitPosition(c) == CHOOSE k \in 1..Len(cell_order) : cell_order[k] = c

\* The cell whose visit has emitted the record: the first cell of a proper
\* pair, the cell of a mutation-only record.
VisitedCell(record) == IF record.first = -1 THEN record.second ELSE record.first

\* C38: the records of create_spatial_pairs stand in visit order and no
\* proper pair is reversed: in a proper pair (a, b), a is the visited cell,
\* which precedes b in the shuffled permutation, and b is the neighbour
\* chosen for it.
C38_RecordsInVisitOrder ==
    /\ [](pstage \in {"visiting", "returned"} =>
            /\ \A i \in 1..Len(pairs), j \in 1..Len(pairs) :
                  i < j => VisitPosition(VisitedCell(pairs[i])) < VisitPosition(VisitedCell(pairs[j]))
            /\ \A i \in 1..Len(pairs) :
                  /\ VisitPosition(VisitedCell(pairs[i])) <= visit
                  /\ pairs[i].first # -1 =>
                        /\ VisitPosition(pairs[i].first) < VisitPosition(pairs[i].second)
                        /\ ManhattanDistance(pairs[i].first, pairs[i].second, width) \in 1..radius)
    /\ [][(pstage = "visiting" /\ Len(pairs') > Len(pairs)) =>
            /\ VisitedCell(pairs'[Len(pairs')]) = cell_order[visit + 1]
            /\ SubSeq(pairs', 1, Len(pairs)) = pairs]_vars

\* A returned pairing in which the visited cell of a proper pair has the
\* greater index of the two, and a later record belongs to a cell of
\* smaller index than an earlier one.
C38_Witness ==
    /\ pstage = "returned"
    /\ \E i \in 1..Len(pairs) : pairs[i].first > pairs[i].second
    /\ \E i \in 1..Len(pairs), j \in 1..Len(pairs) :
         i < j /\ VisitedCell(pairs[i]) > VisitedCell(pairs[j])

(***************************************************************************)
(* The runs of the epoch drivers: each of the three, on a grid of four     *)
(* cells in a row (the smallest on which two pairs run side by side and a  *)
(* cell can be left without a free neighbour), with programs of two bytes. *)
(***************************************************************************)
DriverGrid == [grid_width |-> 4, grid_height |-> 1, program_size |-> 2]

\* The values of config.random_seed.
Seeds == {0, 1}

\* The bytes generate_random_program and initialize_random draw from.
InitialBytes ==
    <<ch_dot, ch_plus, zero, ch_comma, close_bracket, ch_gt, open_bracket>>

\* The byte the generator seeded with seed yields for position k of cell c.
RandomByte(seed, c, k) ==
    InitialBytes[(((c + 1) * (k + 2) + seed * (c + k + 1)) % Len(InitialBytes)) + 1]

\* Grid::initialize_random, GridWithTracer::initialize_random (Token(0, i,
\* random_char) for position i).
initialize_random(driver, seed, cells, program_size) ==
    [c \in 1..cells |->
        [k \in 1..program_size |->
            IF Tokenized(driver)
            THEN Token(0, k - 1, RandomByte(seed, c - 1, k - 1))
            ELSE RandomByte(seed, c - 1, k - 1)]]

InitDriver ==
    /\ \E driver \in Drivers, rate \in {RATE_ZERO, RATE_HALF},
          seed \in Seeds :
         /\ config = [driver |-> driver, mutation_rate |-> rate,
                      program_size |-> DriverGrid.program_size,
                      epochs |-> NumEpochs, random_seed |-> seed]
         /\ grid_data = initialize_random(driver, seed,
                                          DriverGrid.grid_width * DriverGrid.grid_height,
                                          DriverGrid.program_size)
    /\ width = DriverGrid.grid_width
    /\ height = DriverGrid.grid_height
    /\ PairFrameIdle
    /\ num_threads = 0
    /\ epoch = 0
    /\ soup = <<>>
    /\ results = <<>>
    /\ threads = <<>>
    /\ workers = <<>>
    /\ main_pc = "epoch"
    /\ idx = 0
    /\ epoch_input = <<>>
    /\ draws = <<>>
    /\ mutations = 0
    /\ rng_used = {}

\* The drivers with no client of the server.
InitGrid ==
    /\ EmuIdle
    /\ ServerIdle
    /\ FpIdle
    /\ SbsIdle
    /\ InitDriver

NextGrid ==
    \/ StartEpoch
    \/ PairingStep
    \/ BeginDispatch
    \/ DispatchSkip
    \/ JoinOldest
    \/ StartThread
    \/ JoinBatch
    \/ EndDispatch
    \/ JoinRemaining
    \/ \E k \in DOMAIN workers : WorkerCopy(k)
    \/ \E k \in DOMAIN workers : WorkerEmulate(k)
    \/ Process
    \/ FinishProcess
    \/ EndEpoch

SpecGrid == InitGrid /\ [][NextGrid]_vars

\* No thread of the epoch is running or waits to be joined.
AllJoined ==
    /\ threads = <<>>
    /\ \A k \in DOMAIN workers : workers[k].stage \in {"none", "done"}

\* The step writes a program: it changes the grid, or the soup between its
\* copy from the grid and its destruction.
WritesProgram ==
    \/ grid_data' # grid_data
    \/ soup # <<>> /\ soup' # <<>> /\ soup' # soup

\* The tape the thread of record k built is made of the two programs as the
\* epoch found them.
ReadEpochInput(k) ==
    workers[k].tape =
        At(epoch_input, pairs[k].first) \o At(epoch_input, pairs[k].second)

\* C5: within an epoch of each driver, under every interleaving, a thread
\* reads its two programs as they were copied into soup before dispatch,
\* never a program the epoch has written, and every write of a program
\* happens after all threads of the epoch have been joined.
C5_ReadsBeforeWrites ==
    /\ [](\A k \in DOMAIN workers :
            workers[k].stage \in {"copied", "done"} => ReadEpochInput(k))
    /\ [][WritesProgram => AllJoined]_vars

\* The process loop has replaced the first program of a pair that ran on a
\* thread while another pair ran on a second thread.
C5_Witness ==
    /\ main_pc = "process"
    /\ num_threads >= 2
    /\ \E k \in 1..idx, j \in DOMAIN workers :
         /\ j # k
         /\ workers[k].stage = "done"
         /\ workers[j].stage = "done"
         /\ At(IF Tokenized(config.driver) THEN grid_data ELSE soup, pairs[k].first)
              # At(epoch_input, pairs[k].first)

\* The thread of record k was started and has not ended.
Running(k) == workers[k].stage \in {"started", "copied"}

\* The main thread is in the dispatch loop or in one of its joins.
DispatchPhase == main_pc \in {"dispatch", "limit", "join"}

\* C33: in the dispatch phase of an epoch no two threads write the same
\* location and none writes what another reads: soup is written by nobody
\* while the phase lasts, a slot of results is written by the thread of its
\* own record only, in the step in which that thread ends and with every
\* other slot left as it was, threads run in the dispatch phase only, and
\* when the main thread reads the results, in the process loop, every
\* thread has been joined.
C33_WorkersShareNothing ==
    /\ [](\A k \in DOMAIN workers : Running(k) => DispatchPhase /\ k \in Elements(threads))
    /\ [](main_pc = "process" => AllJoined)
    /\ [][DispatchPhase =>
            /\ soup' = soup
            /\ DOMAIN results' = DOMAIN results
            /\ \A j \in DOMAIN results :
                  results'[j] # results[j] =>
                     /\ workers[j].stage = "copied"
                     /\ workers'[j].stage = "done"
                     /\ \A i \in DOMAIN results \ {j} :
                           results'[i] = results[i] /\ workers'[i] = workers[i]]_vars

\* Two threads at once: the thread of one record has written its slot and
\* is not joined yet, the thread of another record has built its tape and
\* has not yet run the machine.
C33_Witness ==
    /\ DispatchPhase
    /\ \E k \in DOMAIN workers, j \in DOMAIN workers :
         /\ workers[k].stage = "done"
         /\ k \in Elements(threads)
         /\ results[k] # DefaultResult(config.driver)
         /\ workers[j].stage = "copied"
         /\ results[j] = DefaultResult(config.driver)

\* How many calls of mutate the first n records of the pairing stand for:
\* one for a mutation-only record, two for a proper pair.
MutateCalls(n) ==
    Cardinality({k \in 1..n : pairs[k].first = -1})
      + 2 * Cardinality({k \in 1..n : pairs[k].first # -1})

\* The step is one of a worker thread: the stage of a thread goes on.
WorkerStep ==
    \E k \in DOMAIN workers :
        /\ k \in DOMAIN workers'
        /\ Running(k)
        /\ workers'[k].stage \in {"copied", "done"}
        /\ workers'[k].stage # workers[k].stage

\* The step draws from a generator: it is a step of create_spatial_pairs
\* in the driver, or it adds the draws of a call of mutate.
DrawStep ==
    \/ main_pc = "pairing" /\ (cell_order' # cell_order \/ visit' = visit + 1)
    \/ Len(draws') > Len(draws)
    \/ rng_used' # rng_used

\* C34: no draw is made inside a worker thread.  Within an epoch every
\* draw is a step of the main thread: the draws of the pairing while no
\* thread has been started, the draws of mutation in the process loop when
\* every thread has been joined, record after record, one call of mutate
\* for a mutation-only record and two for a proper pair; a step of a
\* thread leaves the generators and the pairing alone.
C34_DrawsByMainThread ==
    /\ [](main_pc = "pairing" => workers = <<>> /\ threads = <<>>)
    /\ [](DispatchPhase => draws = <<>>)
    /\ [](main_pc = "process" => Len(draws) = MutateCalls(idx))
    /\ [][DrawStep => main_pc \in {"pairing", "process"} /\ AllJoined /\ ~WorkerStep]_vars
    /\ [][WorkerStep =>
            /\ draws' = draws
            /\ rng_used' = rng_used
            /\ pairs' = pairs
            /\ cell_order' = cell_order]_vars

\* The process loop has made the three calls of mutate of a proper pair
\* and a mutation-only record, and a byte was replaced, after two threads
\* had run at once.
C34_Witness ==
    /\ main_pc = "process"
    /\ num_threads >= 2
    /\ idx >= 2
    /\ Len(draws) >= 3
    /\ mutations >= 1
    /\ \E k \in 1..idx : pairs[k].first = -1
    /\ rng_used # {}

\* C6: the grid an epoch leaves is the one the sequential epoch computes
\* from the grid the epoch found, the records of the pairing and the draws
\* of the seeded generator, so that two runs with the same seed and
\* configuration agree after every epoch whatever num_threads is and however
\* the threads interleave; every draw is from the generator the seed seeds.
C6_GridIsFunctionOfSeed ==
    main_pc = "epoch_end" =>
        /\ grid_data = Replay(epoch_input, 1, 1)
        /\ rng_used \subseteq {SeededGenerator(config.driver)}

\* An epoch ended with two pairs executed under num_threads 2, a mutated
\* byte and a changed grid.
C6_Witness ==
    /\ main_pc = "epoch_end"
    /\ num_threads = 2
    /\ Cardinality({k \in DOMAIN workers : workers[k].stage = "done"}) = 2
    /\ \E j \in DOMAIN draws : Hits(draws[j]) = 1
    /\ grid_data # epoch_input

\* The population the process loop writes: soup in main_grid and main_darwin,
\* the grid in main_grid_w_tracer.
ProcessTarget == IF Tokenized(config.driver) THEN grid_data ELSE soup

\* C11: after every epoch of a grid driver the grid holds exactly
\* width * height programs, each of exactly program_size elements, whatever
\* states the pair executions returned and whichever cells were
\* mutation-only.
C11_GridKeepsItsShape ==
    main_pc = "epoch_end" =>
        /\ Len(grid_data) = width * height
        /\ \A c \in DOMAIN grid_data : Len(grid_data[c]) = config.program_size

\* An epoch has ended in which one pair ran to the iteration limit and
\* another cell was mutation-only.
C11_Witness ==
    /\ main_pc = "epoch_end"
    /\ \E k \in DOMAIN pairs : pairs[k].first = -1
    /\ \E k \in DOMAIN pairs :
         /\ pairs[k].first # -1
         /\ results[k].state = STATE_TERMINATED

\* The process loop handles the record of a proper pair.
ProcessesPair ==
    /\ main_pc = "process"
    /\ idx' = idx + 1
    /\ idx < Len(pairs)
    /\ pairs[idx + 1].first # -1

\* C12: whatever state the execution of a pair returned, the process loop
\* splits the returned tape at program_size, mutates the two halves and
\* writes the first to cell idx_a and the second to cell idx_b; it leaves the
\* results and the ended threads as they are (no retry), and the programs
\* written are those of the returned tape, not those the pair had before.
C12_WritesHalvesWhateverState ==
    [][ProcessesPair =>
          LET r == results[idx + 1]
              size == config.program_size
              da == draws'[Len(draws') - 1]
              db == draws'[Len(draws')]
          IN  /\ r.state \in ResultStates
              /\ At(ProcessTarget', pairs[idx + 1].first)
                   = Mutated(config.driver, SubSeq(r.tape, 1, size), da, epoch + 1)
              /\ At(ProcessTarget', pairs[idx + 1].second)
                   = Mutated(config.driver, SubSeq(r.tape, size + 1, 2 * size), db,
                             epoch + 1)
              /\ results' = results
              /\ workers' = workers
              /\ threads' = threads
              /\ main_pc' = "process"]_vars

\* The record just processed is of a pair whose execution ended on an
\* unmatched ] after changing the tape, and the cells hold the halves of the
\* returned tape, which are not the programs the epoch found there.
C12_Witness ==
    /\ main_pc = "process"
    /\ idx >= 1
    /\ pairs[idx].first # -1
    /\ results[idx].state = STATE_UNMATCHED_CLOSE
    /\ Hits(draws[Len(draws)]) = 0
    /\ Hits(draws[Len(draws) - 1]) = 0
    /\ At(ProcessTarget, pairs[idx].first)
         = SubSeq(results[idx].tape, 1, config.program_size)
    /\ At(ProcessTarget, pairs[idx].first) # At(epoch_input, pairs[idx].first)

\* The same step for a pair that ended on an unmatched [ and for one that
\* ran to the iteration limit.
C12_UnmatchedOpenProcessed ==
    /\ main_pc = "process"
    /\ idx >= 1
    /\ pairs[idx].first # -1
    /\ results[idx].state = STATE_UNMATCHED_OPEN

C12_TerminatedProcessed ==
    /\ main_pc = "process"
    /\ idx >= 1
    /\ pairs[idx].first # -1
    /\ results[idx].state = STATE_TERMINATED
    /\ results[idx].iteration = default_max_iter

(***************************************************************************)
(* The drivers with a client of the WebSocket server that sends the text   *)
(* frames pause and play while the epochs run.                             *)
(***************************************************************************)

\* A client has connected before the first epoch and stays connected.
InitPause ==
    /\ EmuIdle
    /\ FpIdle
    /\ SbsIdle
    /\ InitDriver
    /\ paused = FALSE
    /\ client_sockets = <<1>>
    /\ handlers = {1}
    /\ conn = [fd \in Sockets |-> IF fd = 1 THEN CONN_CONNECTED ELSE CONN_NONE]
    /\ delivered = [fd \in Sockets |-> 0]
    /\ broadcasts = 0
    /\ server_alive = TRUE
    /\ running = TRUE
    /\ closes = [fd \in Sockets |-> 0]

NextPause ==
    \/ NextGrid
    \/ ClientPause /\ UNCHANGED <<emuVars, fpVars, sbsVars, pairVars, gridVars>>
    \/ ClientPlay /\ UNCHANGED <<emuVars, fpVars, sbsVars, pairVars, gridVars>>

SpecPause == InitPause /\ [][NextPause]_vars

\* The main thread leaves the top of the epoch loop for the body of a new
\* epoch.
StartsEpoch == main_pc = "epoch" /\ main_pc' # "epoch"

\* A thread of a pair runs the machine.
PairExecutes == \E k \in DOMAIN workers : workers[k].stage = "copied"

\* A write of the flag leaves the threads of the pairs, their results and
\* the main thread where they are.
InFlightProceeds ==
    paused' # paused => UNCHANGED <<workers, results, threads, main_pc, grid_data>>

\* C13: in every epoch driver (main_grid, main_grid_w_tracer, main_darwin),
\* while the pause flag is set at the top of the epoch loop no new epoch
\* starts and the grid and the epoch counter keep their values; the flag
\* never stops a pair execution in flight.
C13_PauseGatesEveryDriver ==
    [][/\ (paused /\ main_pc = "epoch") =>
             (~StartsEpoch /\ grid_data' = grid_data /\ epoch' = epoch)
       /\ InFlightProceeds]_vars

\* The same for the two drivers whose loop reads the flag.
C13_PauseGatesPlainAndDarwin ==
    [][/\ (paused /\ main_pc = "epoch" /\ ChecksPause(config.driver)) =>
             (~StartsEpoch /\ grid_data' = grid_data /\ epoch' = epoch)
       /\ InFlightProceeds]_vars

\* main_grid or main_darwin has started an epoch after a pause was lifted,
\* and a pair runs while the flag is set again.
C13_Witness ==
    /\ ChecksPause(config.driver)
    /\ paused
    /\ PairExecutes

\* main_grid_w_tracer is in the body of an epoch it started while the flag
\* was set.
C13_TokenizedRunsWhilePaused ==
    /\ Tokenized(config.driver)
    /\ paused
    /\ main_pc = "pairing"

\* The positions, counted from 0, at which program holds a token created in
\* epoch ep.
CreatedIn(program, ep) == {i \in 0..(Len(program) - 1) : At(program, i).epoch = ep}

\* program is before with at most one token replaced, at a position i, by a
\* token of epoch ep and origin position i.
OneNewToken(program, before, ep) ==
    /\ Len(program) = Len(before)
    /\ Cardinality(CreatedIn(program, ep)) <= 1
    /\ \A i \in 0..(Len(program) - 1) :
         \/ At(program, i) = At(before, i)
         \/ /\ At(program, i).epoch = ep
            /\ At(program, i).position = i

\* C14: right after an epoch of main_grid_w_tracer every program of the grid
\* holds at most one token created in that epoch (epoch + 1 is the epoch the
\* driver passes to GridWithTracer::mutate); the token is at the position its
\* origin position names, and every other token is the one the mutated
\* program (the half of the returned tape, or the cell's program in a
\* mutation-only record) had there.
C14_OneNewTokenPerProgram ==
    (main_pc = "epoch_end" /\ Tokenized(config.driver)) =>
        \A k \in DOMAIN pairs :
            LET size == config.program_size
            IN  IF pairs[k].first = -1
                THEN OneNewToken(At(grid_data, pairs[k].second),
                                 At(epoch_input, pairs[k].second), epoch + 1)
                ELSE /\ OneNewToken(At(grid_data, pairs[k].first),
                                    SubSeq(results[k].tape, 1, size), epoch + 1)
                     /\ OneNewToken(At(grid_data, pairs[k].second),
                                    SubSeq(results[k].tape, size + 1, 2 * size), epoch + 1)

\* An epoch of main_grid_w_tracer has ended in which a pair's execution
\* copied a token and the mutation of one of its halves then drew a hit.
C14_Witness ==
    /\ main_pc = "epoch_end"
    /\ Tokenized(config.driver)
    /\ \E k \in DOMAIN pairs :
         /\ pairs[k].first # -1
         /\ results[k].tape # At(epoch_input, pairs[k].first)
                                 \o At(epoch_input, pairs[k].second)
         /\ \/ CreatedIn(At(grid_data, pairs[k].first), epoch + 1) # {}
            \/ CreatedIn(At(grid_data, pairs[k].second), epoch + 1) # {}

(***************************************************************************)
(* main_grid_w_tracer alone, over more than one epoch.                     *)
(***************************************************************************)
\* config.epochs of the run.
TokenizedEpochs == 2

InitTokenized ==
    /\ EmuIdle
    /\ ServerIdle
    /\ FpIdle
    /\ SbsIdle
    /\ \E seed \in Seeds :
         /\ config = [driver |-> MAIN_GRID_W_TRACER, mutation_rate |-> RATE_HALF,
                      program_size |-> DriverGrid.program_size,
                      epochs |-> TokenizedEpochs, random_seed |-> seed]
         /\ grid_data = initialize_random(MAIN_GRID_W_TRACER, seed,
                                          DriverGrid.grid_width * DriverGrid.grid_height,
                                          DriverGrid.program_size)
    /\ width = DriverGrid.grid_width
    /\ height = DriverGrid.grid_height
    /\ PairFrameIdle
    /\ num_threads = 0
    /\ epoch = 0
    /\ soup = <<>>
    /\ results = <<>>
    /\ threads = <<>>
    /\ workers = <<>>
    /\ main_pc = "epoch"
    /\ idx = 0
    /\ epoch_input = <<>>
    /\ draws = <<>>
    /\ mutations = 0
    /\ rng_used = {}

\* The steps of main_grid_w_tracer: its dispatch loop joins a whole batch
\* when the limit is reached, never the oldest thread alone.
NextTokenized ==
    \/ StartEpoch
    \/ PairingStep
    \/ BeginDispatch
    \/ DispatchSkip
    \/ StartThread
    \/ JoinBatch
    \/ EndDispatch
    \/ JoinRemaining
    \/ \E k \in DOMAIN workers : WorkerCopy(k)
    \/ \E k \in DOMAIN workers : WorkerEmulate(k)
    \/ Process
    \/ FinishProcess
    \/ EndEpoch

SpecTokenized == InitTokenized /\ [][NextTokenized]_vars

\* The tokens of a population.
TokensOf(population) ==
    {population[c][k] : c \in DOMAIN population, k \in 1..config.program_size}

\* The main thread is between two epochs: epoch of them are completed.
BetweenEpochs == main_pc = "epoch"

\* C31: after any number of epochs of the tokenized driver every token of
\* the grid has an origin position below L and an epoch tag that is at most
\* the number of epochs completed; and a token with a tag k > 0 is there
\* only through a mutation of epoch k or as a copy of such a token: when an
\* epoch ends, a token of the grid with the tag of that epoch carries the
\* position a mutation of the epoch has drawn, and a token with another tag
\* carries an (epoch, origin position) pair the grid held when the epoch
\* began.
C31_TagsComeFromMutation ==
    /\ BetweenEpochs =>
          \A t \in TokensOf(grid_data) :
              /\ get_position(t) \in 0..(config.program_size - 1)
              /\ get_epoch(t) \in 0..epoch
    /\ main_pc = "epoch_end" =>
          \A t \in TokensOf(grid_data) :
              IF get_epoch(t) = epoch + 1
              THEN \E j \in 1..Len(draws) : At(draws[j], get_position(t)) # NoHit
              ELSE \E u \in TokensOf(epoch_input) : Provenance(u) = Provenance(t)

\* Two epochs are completed; a mutation of the first has made a token, and
\* an execution has copied it: two cells of the grid hold its (epoch,
\* origin position) pair.
C31_Witness ==
    /\ BetweenEpochs
    /\ epoch = TokenizedEpochs
    /\ \E c \in DOMAIN grid_data, e \in DOMAIN grid_data :
         \E i \in 1..config.program_size, j \in 1..config.program_size :
           /\ <<c, i>> # <<e, j>>
           /\ get_epoch(grid_data[c][i]) = 1
           /\ Provenance(grid_data[c][i]) = Provenance(grid_data[e][j])

\* Two epochs are completed and the grid holds a token that a mutation of
\* the second has made.
C31_LaterTag ==
    /\ BetweenEpochs
    /\ epoch = TokenizedEpochs
    /\ \E t \in TokensOf(grid_data) : get_epoch(t) = TokenizedEpochs

(***************************************************************************)
(* The server alone: clients connect, fail and leave while a caller        *)
(* broadcasts.                                                             *)
(***************************************************************************)
InitServer ==
    /\ EmuIdle
    /\ FpIdle
    /\ SbsIdle
    /\ PairIdle
    /\ DriverIdle
    /\ ServerIdle

NextServer ==
    \/ \E fd \in Sockets : Accept(fd) /\ UNCHANGED <<emuVars, fpVars, sbsVars, pairVars, gridVars>>
    \/ \E fd \in Sockets : PeerCloses(fd) /\ UNCHANGED <<emuVars, fpVars, sbsVars, pairVars, gridVars>>
    \/ \E fd \in Sockets : PeerResets(fd) /\ UNCHANGED <<emuVars, fpVars, sbsVars, pairVars, gridVars>>
    \/ \E fd \in Sockets : HandlerExit(fd) /\ UNCHANGED <<emuVars, fpVars, sbsVars, pairVars, gridVars>>
    \/ ClientPause /\ UNCHANGED <<emuVars, fpVars, sbsVars, pairVars, gridVars>>
    \/ ClientPlay /\ UNCHANGED <<emuVars, fpVars, sbsVars, pairVars, gridVars>>
    \/ Broadcast /\ UNCHANGED <<emuVars, fpVars, sbsVars, pairVars, gridVars>>

SpecServer == InitServer /\ [][NextServer]_vars

\* The clients of the list to which a send cannot succeed.
FailingClients == {fd \in Elements(client_sockets) : conn[fd] # CONN_CONNECTED}

\* A call of broadcast is made, and returns or ends the process.
BroadcastCalled == broadcasts' = broadcasts + 1

\* C19: when the send to a client fails during broadcast, that client is
\* removed from the client list, every other connected client of the list is
\* still sent the frame in the same call, and the call returns to its caller.
C19_SendFailureIsLocal ==
    [][(BroadcastCalled /\ FailingClients # {}) =>
          /\ server_alive'
          /\ \A fd \in FailingClients : fd \notin Elements(client_sockets')
          /\ \A fd \in Elements(client_sockets) \ FailingClients :
                /\ delivered'[fd] = delivered[fd] + 1
                /\ fd \in Elements(client_sockets')]_vars

\* The same for the calls in which every failing send returns.
C19_ReturnedFailureIsLocal ==
    [][(BroadcastCalled /\ FailingClients # {} /\ server_alive') =>
          /\ \A fd \in FailingClients : fd \notin Elements(client_sockets')
          /\ \A fd \in Elements(client_sockets) \ FailingClients :
                /\ delivered'[fd] = delivered[fd] + 1
                /\ fd \in Elements(client_sockets')]_vars

\* A send to a client whose peer had closed has ended the process inside
\* broadcast, and a connected client behind it in the list was not sent the
\* frame of that call.
C19_ProcessEndedInBroadcast ==
    /\ ~server_alive
    /\ \E fd \in Elements(client_sockets) :
         /\ conn[fd] = CONN_CONNECTED
         /\ delivered[fd] < broadcasts

\* A call has returned after it dropped a failing client and sent the frame
\* to a client behind it.
C19_FailureDropped ==
    /\ server_alive
    /\ broadcasts = 1
    /\ \E fd \in handlers : conn[fd] = CONN_NONE
    /\ \E fd \in Elements(client_sockets) : delivered[fd] = 1

\* WebSocketServer::stop, a whole call: running becomes false, every socket
\* of the client list is closed and the list is cleared.  The handle_client
\* threads are detached and go on.
stop ==
    /\ server_alive
    /\ running
    /\ running' = FALSE
    /\ closes' = [fd \in Sockets |->
                    IF fd \in Elements(client_sockets) THEN closes[fd] + 1 ELSE closes[fd]]
    /\ conn' = [fd \in Sockets |->
                  IF fd \in Elements(client_sockets) THEN CONN_NONE ELSE conn[fd]]
    /\ client_sockets' = <<>>
    /\ UNCHANGED <<paused, handlers, delivered, broadcasts, server_alive>>

\* The server with the call of stop that ends it.
InitStop == InitServer

NextStop ==
    \/ NextServer
    \/ stop /\ UNCHANGED <<emuVars, fpVars, sbsVars, pairVars, gridVars>>

SpecStop == InitStop /\ [][NextStop]_vars

\* C36: every accepted client socket is closed exactly once over its
\* lifetime: no descriptor has been closed a second time since accept
\* returned it, and a descriptor whose handle_client thread has returned has
\* been closed.
C36_ClosedExactlyOnce ==
    \A fd \in Sockets :
        /\ closes[fd] <= 1
        /\ (closes[fd] > 0 /\ fd \notin handlers) => closes[fd] = 1

\* broadcast closed a socket whose send failed, and handle_client, whose recv
\* then failed, closed the same descriptor again.
C36_ClosedTwice ==
    \E fd \in Sockets :
        /\ running
        /\ closes[fd] = 2
        /\ fd \notin handlers

\* stop closed a listed socket, and its handle_client thread closed it again
\* on leaving the message loop.
C36_ClosedByStopThenHandler ==
    \E fd \in Sockets :
        /\ ~running
        /\ broadcasts = 0
        /\ closes[fd] = 2

\* What does hold: a descriptor is closed at most twice, a second close is
\* the one of handle_client, and a socket that is still in the client list
\* has not been closed.
C36_HandlerClosesAgain ==
    /\ [](\A fd \in Sockets :
            /\ closes[fd] <= 2
            /\ fd \in Elements(client_sockets) => closes[fd] = 0)
    /\ [][\A fd \in Sockets :
            (closes[fd] = 1 /\ closes'[fd] = 2) => (fd \in handlers /\ fd \notin handlers')]_vars

(***************************************************************************)
(* A forward pass of find_replicators over the snapshot files of a 2 x 1   *)
(* grid, the content of each file chosen when it is read.                  *)
(***************************************************************************)
InitForward ==
    /\ EmuIdle
    /\ PairIdle
    /\ DriverIdle
    /\ ServerIdle
    /\ SbsIdle
    /\ \E grid_x \in 0..FpGrid.grid_width, threads_arg \in 1..FpThreads :
         fp = FpEntryFrame(0, grid_x, 0, FpEpochs, FpGrid.grid_width,
                           FpGrid.grid_height, threads_arg)
    /\ fp_log = [checks |-> <<>>, failed |-> {}]

NextForward ==
    \/ FPEntryThrows /\ UNCHANGED notFpVars
    \/ \E rows \in PairingFiles : FPEntry(rows) /\ UNCHANGED notFpVars
    \/ FPReturn /\ UNCHANGED notFpVars
    \/ FPNothingToPropagate /\ UNCHANGED notFpVars
    \/ FPReadFails /\ UNCHANGED notFpVars
    \/ \E rows \in PairingFiles : FPCandidates(rows) /\ UNCHANGED notFpVars
    \/ FPCached /\ UNCHANGED notFpVars
    \/ FPSubmit /\ UNCHANGED notFpVars
    \/ FPWaitFront /\ UNCHANGED notFpVars
    \/ \E k \in DOMAIN fp.futures : AsyncCheck(k) /\ UNCHANGED notFpVars
    \/ FPGet /\ UNCHANGED notFpVars
    \/ FPEndEpoch /\ UNCHANGED notFpVars

SpecForward == InitForward /\ [][NextForward]_vars

\* C15: over a whole forward pass check_replicator runs at most once on a
\* program: a later candidate with the same bytes, at another cell of the
\* same epoch or in a later epoch, is answered from the cache.
C15_OneCheckPerProgram ==
    \A program \in DOMAIN fp_log.checks : fp_log.checks[program] <= 1

\* What the loop does guarantee: a check is submitted only for a program
\* that is not in the cache when the loop reaches its candidate.
C15_SubmittedOnlyIfNotCached ==
    [][(fp.pc = "verify" /\ fp'.pc = "verify" /\ fp'.ci = fp.ci + 1
          /\ ~cache_has(fp.cache, Candidate.program))
         <=> (fp.pc = "verify" /\ fp'.ci = fp.ci + 1
                /\ fp'.futures # <<>>
                /\ fp'.futures[Len(fp'.futures)] = Future(Candidate)
                /\ fp'.futures # fp.futures)]_vars

\* Two candidates of one epoch, at different cells, carry the same program,
\* and the task of each has run check_replicator on it.
C15_CheckedTwiceInOneEpoch ==
    /\ fp.pc = "verify"
    /\ \E j, k \in DOMAIN fp.futures :
         /\ j # k
         /\ fp.futures[j].ready
         /\ fp.futures[k].ready
         /\ fp.futures[j].candidate.program = fp.futures[k].candidate.program
         /\ fp.futures[j].candidate.grid_x # fp.futures[k].candidate.grid_x
         /\ fp_log.checks[fp.futures[j].candidate.program] = 2

\* The records of replicators_by_epoch.
Records ==
    UNION {fp.replicators_by_epoch[e] : e \in DOMAIN fp.replicators_by_epoch}

\* C16: every record of replicators_by_epoch, at every epoch from the start
\* epoch on, carries a program that passed check_replicator; a program that
\* fails the check is never added.
C16_EveryRecordPassed ==
    \A record \in Records : Verdicts[record.program]

\* The same for the epochs after the start epoch.
C16_LaterRecordsPassed ==
    \A record \in Records :
        record.epoch > fp.start_epoch => Verdicts[record.program]

\* find_replicators has returned a map whose set at the start epoch holds a
\* program that failed the check.
C16_FailedProgramReturned ==
    /\ fp.pc = "returned"
    /\ fp.start_epoch \in DOMAIN fp.replicators_by_epoch
    /\ \E record \in fp.replicators_by_epoch[fp.start_epoch] :
         ~Verdicts[record.program]

\* The in-grid neighbours of a replicator whose cell of the next epoch was
\* combined with the replicator's position.
PairedNeighbors(replicator) ==
    {pos \in DOMAIN fp.next_cells :
        /\ \E k \in 1..13 : get_neighboors(replicator.grid_x, replicator.grid_y)[k] = pos
        /\ pos[1] >= 0 /\ pos[1] < fp.grid_width
        /\ pos[2] >= 0 /\ pos[2] < fp.grid_height
        /\ fp.next_cells[pos].combined_x = replicator.grid_x
        /\ fp.next_cells[pos].combined_y = replicator.grid_y}

\* The next-epoch program at pos is one the forward pass compares with the
\* replicator: a paired neighbour's, or the one at the replicator's own
\* position when it was paired or mutation-only.
Compared(replicator, pos) ==
    \/ pos \in PairedNeighbors(replicator)
    \/ /\ pos = <<replicator.grid_x, replicator.grid_y>>
       /\ pos \in DOMAIN fp.next_cells
       /\ \/ PairedNeighbors(replicator) # {}
          \/ /\ fp.next_cells[pos].combined_x = -1
             /\ fp.next_cells[pos].combined_y = -1

\* similarity >= 0.9 and similarity > 0.9, on the fraction.
AtLeastThreshold(similarity) == similarity.num * 10 >= 9 * similarity.den

\* The candidates are the compared programs that Keeps(similarity) accepts.
FilterIs(Keeps(_)) ==
    fp.pc = "verify" =>
        \A pos \in DOMAIN fp.next_cells :
            LET candidate == ProgramLocation(fp.epoch + 1, pos[1], pos[2],
                                             fp.next_cells[pos].program)
                kept == \E i \in DOMAIN fp.candidates : fp.candidates[i] = candidate
                near == \E replicator \in fp.replicators_by_epoch[fp.epoch] :
                          /\ Compared(replicator, pos)
                          /\ Keeps(calculate_similarity(replicator.program,
                                                        candidate.program))
            IN  kept <=> near

\* C17: the candidate filter is inclusive: a compared program whose
\* similarity to the replicator's is exactly 0.9 (18 of 20 positions) or
\* higher is a candidate, and one of lower similarity to every replicator is
\* not.
C17_FilterIsInclusive == FilterIs(AtLeastThreshold)

\* The filter of the code: strictly above 0.9.
C17_FilterIsStrict == FilterIs(AboveThreshold)

\* A compared program of similarity exactly 0.9 that passes
\* check_replicator was dropped: it is no candidate.
C17_ThresholdProgramDropped ==
    /\ fp.pc = "verify"
    /\ \E replicator \in fp.replicators_by_epoch[fp.epoch], pos \in DOMAIN fp.next_cells :
         /\ Compared(replicator, pos)
         /\ calculate_similarity(replicator.program, fp.next_cells[pos].program)
              = [num |-> 18, den |-> 20]
         /\ Verdicts[fp.next_cells[pos].program]
         /\ \A i \in DOMAIN fp.candidates :
              fp.candidates[i].program # fp.next_cells[pos].program

\* The read of the file of epoch + 1 fails.
ReadFailsInPass == fp.pc = "loop" /\ fp_log'.failed # fp_log.failed

\* C18: if the snapshot file of epoch e + 1 cannot be opened during the
\* forward pass, find_replicators stops at epoch e and returns: the sets of
\* the epochs start..e are the ones collected so far, the map has no entry
\* for an epoch beyond e, no exception escapes, and nothing more is done
\* after the return.
C18_ReadFailureStopsThePass ==
    [][/\ ReadFailsInPass =>
            /\ fp'.pc = "returned"
            /\ fp'.replicators_by_epoch = fp.replicators_by_epoch
            /\ DOMAIN fp'.replicators_by_epoch = fp.start_epoch..fp.epoch
            /\ fp'.epoch = fp.epoch
       /\ fp.pc = "returned" => fp' = fp]_vars

\* find_replicators has returned after the file of the second epoch after
\* the start failed to open, with the replicators of two epochs collected.
C18_Witness ==
    /\ fp.pc = "returned"
    /\ fp_log.failed = {fp.start_epoch + 2}
    /\ DOMAIN fp.replicators_by_epoch = {fp.start_epoch, fp.start_epoch + 1}
    /\ fp.replicators_by_epoch[fp.start_epoch + 1] # {}

(***************************************************************************)
(* The parent-child loop of the analyzer's main over the replicators of    *)
(* two consecutive epochs, each replicator with a label of its own.        *)
(***************************************************************************)
EdgeMax == 3

EdgeMaxParents == 2

EdgeLocations == [grid_x : 0..EdgeMax, grid_y : 0..EdgeMax]

\* main: is_neighbor for a replicator and one of the epoch before.
is_neighbor(rep, prev_rep) ==
    LET dx == Abs(rep.grid_x - prev_rep.grid_x)
        dy == Abs(rep.grid_y - prev_rep.grid_y)
        manhattan == dx + dy
    IN  (manhattan <= 2) \/ (dx = 1 /\ dy = 1)

\* main enters the parent-child loop of one epoch: reps are the replicators
\* of the epoch, prev_epoch_reps those of the epoch before.
InitEdges ==
    /\ EmuIdle
    /\ PairIdle
    /\ DriverIdle
    /\ ServerIdle
    /\ SbsIdle
    /\ fp_log = [checks |-> <<>>, failed |-> {}]
    /\ \E rep \in EdgeLocations, n \in 1..EdgeMaxParents :
         \E prev_epoch_reps \in [1..n -> EdgeLocations] :
            fp = [pc |-> "parents", reps |-> <<rep>>, prev_epoch_reps |-> prev_epoch_reps,
                  rep |-> 1, prev_rep |-> 1, edges |-> {}]

\* One pass of the inner loop: the pair is tested and, if accepted, the
\* edge {parent_label, child_label} is inserted; the label of a replicator
\* is its place in its list.
ParentEdge ==
    /\ fp.pc = "parents"
    /\ LET rep == fp.reps[fp.rep]
           prev_rep == fp.prev_epoch_reps[fp.prev_rep]
           accepted == is_neighbor(rep, prev_rep)
                       \/ (rep.grid_x = prev_rep.grid_x /\ rep.grid_y = prev_rep.grid_y)
           last_prev == fp.prev_rep = Len(fp.prev_epoch_reps)
           last_rep == fp.rep = Len(fp.reps)
       IN  fp' = [fp EXCEPT !.edges = IF accepted THEN @ \cup {<<fp.prev_rep, fp.rep>>} ELSE @,
                            !.prev_rep = IF last_prev THEN 1 ELSE @ + 1,
                            !.rep = IF last_prev /\ ~last_rep THEN @ + 1 ELSE @,
                            !.pc = IF last_prev /\ last_rep THEN "parents_done" ELSE @]
    /\ UNCHANGED <<fp_log, notFpVars>>

NextEdges == ParentEdge

SpecEdges == InitEdges /\ [][NextEdges]_vars

\* The 13 cells the specification names around (x, y): the cell, its four
\* 4-neighbours, the four distance-2 axis cells and the four diagonals.
ExpandedNeighbourhood(x, y) ==
    {<<x, y>>}
        \cup {<<x - 1, y>>, <<x + 1, y>>, <<x, y - 1>>, <<x, y + 1>>}
        \cup {<<x - 2, y>>, <<x + 2, y>>, <<x, y - 2>>, <<x, y + 2>>}
        \cup {<<x - 1, y - 1>>, <<x + 1, y - 1>>, <<x - 1, y + 1>>, <<x + 1, y + 1>>}

\* C37: get_neighboors(x, y) returns exactly 13 distinct cells, the cell,
\* its four 4-neighbours, the four distance-2 axis cells and the four
\* diagonals, and the parent-child loop of main has inserted the edge of a
\* (previous, current) pair exactly when the current location is one of the
\* 13 cells of the previous one.
C37_OneNeighbourhood ==
    fp.pc \in {"parents", "parents_done"} =>
        /\ \A j \in DOMAIN fp.prev_epoch_reps :
              LET prev_rep == fp.prev_epoch_reps[j]
                  neighbors == get_neighboors(prev_rep.grid_x, prev_rep.grid_y)
              IN  /\ Len(neighbors) = 13
                  /\ Cardinality(Elements(neighbors)) = 13
                  /\ Elements(neighbors) = ExpandedNeighbourhood(prev_rep.grid_x, prev_rep.grid_y)
        /\ fp.pc = "parents_done" =>
              \A j \in DOMAIN fp.prev_epoch_reps, i \in DOMAIN fp.reps :
                  LET prev_rep == fp.prev_epoch_reps[j]
                      rep == fp.reps[i]
                  IN  <<j, i>> \in fp.edges
                          <=> <<rep.grid_x, rep.grid_y>>
                                  \in Elements(get_neighboors(prev_rep.grid_x, prev_rep.grid_y))

\* The loop has ended with the edge of a parent on a diagonal and without
\* the edge of a parent at Manhattan distance 3.
C37_Witness ==
    /\ fp.pc = "parents_done"
    /\ \E j \in DOMAIN fp.prev_epoch_reps :
          /\ <<j, 1>> \in fp.edges
          /\ Abs(fp.reps[1].grid_x - fp.prev_epoch_reps[j].grid_x) = 1
          /\ Abs(fp.reps[1].grid_y - fp.prev_epoch_reps[j].grid_y) = 1
    /\ \E j \in DOMAIN fp.prev_epoch_reps :
          /\ <<j, 1>> \notin fp.edges
          /\ Abs(fp.reps[1].grid_x - fp.prev_epoch_reps[j].grid_x)
                + Abs(fp.reps[1].grid_y - fp.prev_epoch_reps[j].grid_y) = 3

\* The loop has ended with the edge of a parent two cells away on an axis
\* and the edge of a parent at the replicator's own location.
C37_AxisAndSelf ==
    /\ fp.pc = "parents_done"
    /\ \E j \in DOMAIN fp.prev_epoch_reps :
          /\ <<j, 1>> \in fp.edges
          /\ Abs(fp.reps[1].grid_x - fp.prev_epoch_reps[j].grid_x) = 2
          /\ fp.reps[1].grid_y = fp.prev_epoch_reps[j].grid_y
    /\ \E j \in DOMAIN fp.prev_epoch_reps :
          /\ <<j, 1>> \in fp.edges
          /\ fp.reps[1] = fp.prev_epoch_reps[j]

(***************************************************************************)
(* The epoch drivers and the analyzer as one system: each run is one of a   *)
(* driver or one of find_replicators.                                      *)
(***************************************************************************)
InitPools == InitGrid \/ InitForward

NextPools == NextGrid \/ NextForward

SpecPools == InitPools /\ [][NextPools]_vars

\* The checks find_replicators has submitted and not collected.
Outstanding ==
    IF fp.pc = "verify"
    THEN {k \in DOMAIN fp.futures : k > fp.di}
    ELSE {}

\* C35: at every moment of an epoch at most num_threads worker threads are
\* started and not yet joined, in the plain, the tokenized and the Darwin
\* driver, num_threads being what the hardware reports, or 4 when it
\* reports 0; and at most num_threads checks of the analyzer are
\* outstanding.
C35_AtMostNumThreads ==
    /\ Len(threads) <= num_threads
    /\ Cardinality({k \in DOMAIN workers : Running(k)}) <= num_threads
    /\ (main_pc \in {"dispatch", "limit", "join", "process", "epoch_end"}) =>
          num_threads \in (1..MaxThreads) \cup {fallback_threads}
    /\ Cardinality(Outstanding) <= fp.num_threads

\* The plain driver with num_threads 1 and two pairs: the thread of the
\* first pair has been joined, and the thread of the second runs.
C35_Witness ==
    /\ config.driver = MAIN_GRID
    /\ main_pc = "dispatch"
    /\ num_threads = 1
    /\ Len(threads) = 1
    /\ Head(threads) = 2
    /\ Running(2)
    /\ workers[1].stage = "done"

\* The tokenized driver with as many threads as num_threads, not yet
\* joined, more than one.
C35_TokenizedAtLimit ==
    /\ config.driver = MAIN_GRID_W_TRACER
    /\ main_pc = "limit"
    /\ num_threads = Len(threads)
    /\ Len(threads) >= 2
    /\ \A k \in Elements(threads) : Running(k)

\* The analyzer holds num_threads checks, none of them finished, and has
\* another candidate to submit.
C35_AnalyzerAtLimit ==
    /\ fp.pc = "verify"
    /\ Cardinality(Outstanding) = fp.num_threads
    /\ \A k \in Outstanding : ~fp.futures[k].ready
    /\ fp.ci < Len(fp.candidates)

\* hardware_concurrency() has reported 0, and two threads run.
C35_Fallback ==
    /\ num_threads = fallback_threads
    /\ Len(threads) = 2
    /\ \A k \in Elements(threads) : Running(k)

(***************************************************************************)
(* test_epoch_by_epoch (src/test_epoch_by_epoch.cpp): a Grid and a         *)
(* GridWithTracer stepped side by side, the generator of utils.cpp seeded  *)
(* alike before each grid's turn.                                          *)
(***************************************************************************)
\* grid_size x 1 cells of program_size bytes, and num_epochs of the loop.
SbsGrid == [grid_width |-> 3, grid_height |-> 1, program_size |-> 2]
SbsEpochs == 2

\* What seed_random(42) can leave the generator to yield for the initial
\* programs: with seed 1 they hold a '[', with seed 3 no bracket.
SbsSeeds == {1, 3}

\* How many values the generator yields after an epoch's pairing before it
\* settles on values for which dis(rng) < mutation_rate fails.
SbsDraws == 2

\* A value of the generator, by what each distribution makes of it: whether
\* dis(rng) < mutation_rate holds, the position pos_dist returns and the
\* byte byte_dis returns.
GeneratorValues ==
    [hit : BOOLEAN, pos : 0..(SbsGrid.program_size - 1), byte : MutationBytes]

\* A value for which dis(rng) < mutation_rate fails.
NoMutationValue ==
    [hit |-> FALSE, pos |-> 0, byte |-> CHOOSE b \in MutationBytes : TRUE]

\* The generator: the values it yields from the state the seed left it in,
\* and how many of them were taken.
Generator(values) == [values |-> values, taken |-> 0]

\* The value the next call of a distribution takes, and the generator after
\* the call.
NextValue(g) ==
    IF g.taken < Len(g.values) THEN g.values[g.taken + 1] ELSE NoMutationValue

Discard(g) == [g EXCEPT !.taken = @ + 1]

\* The loop of mutate (utils.cpp) from byte i of the tape: one dis(rng) for
\* each byte, and one byte_dis(rng) after each that is less than
\* mutation_rate.  d is the draw so far.
RECURSIVE mutate_reads(_, _, _, _)
mutate_reads(tape, i, d, g) ==
    IF i >= Len(tape) THEN [d |-> d, rng |-> g]
    ELSE IF NextValue(g).hit
    THEN mutate_reads(tape, i + 1, Put(d, i, NextValue(Discard(g)).byte),
                      Discard(Discard(g)))
    ELSE mutate_reads(tape, i + 1, d, Discard(g))

\* GridWithTracer::mutate: one mutation_dist(rng) and, if it is less than
\* mutation_rate, one pos_dist(rng) and then one byte_dist(rng).
GridWithTracer_mutate_reads(program_size, g) ==
    IF NextValue(g).hit
    THEN [d |-> [k \in 1..program_size |->
                   IF k = NextValue(Discard(g)).pos + 1
                   THEN NextValue(Discard(Discard(g))).byte ELSE NoHit],
          rng |-> Discard(Discard(Discard(g)))]
    ELSE [d |-> [k \in 1..program_size |-> NoHit], rng |-> Discard(g)]

\* mutate(program, mutation_rate) on the generator g, mutation_rate 0.001.
MutatePlain(program, g) ==
    LET r == mutate_reads(program, 0, [k \in 1..Len(program) |-> NoHit], g)
    IN  [program |-> mutate(program, r.d), rng |-> r.rng, hits |-> Hits(r.d)]

\* grid2.mutate(program, mutation_rate, ep, get_rng()) on the generator g.
MutateTokenized(program, ep, g) ==
    LET r == GridWithTracer_mutate_reads(Len(program), g)
    IN  [program |-> GridWithTracer_mutate(program, r.d, ep), rng |-> r.rng,
         hits |-> Hits(r.d)]

\* The records the loop of create_spatial_pairs emits from the k-th cell of
\* order on, for each choice of neighbour the generator can make.
RECURSIVE VisitFrom(_, _, _, _, _, _, _)
VisitFrom(order, k, tk, ps, r, w, h) ==
    IF k > Len(order) THEN {ps}
    ELSE LET cell_idx == order[k]
             avail == available_neighbors(cell_idx, r, w, h, tk)
         IN  IF tk[cell_idx] THEN VisitFrom(order, k + 1, tk, ps, r, w, h)
             ELSE IF avail # {}
             THEN UNION {VisitFrom(order, k + 1, MarkPair(tk, cell_idx, chosen_idx),
                                   Append(ps, Record(cell_idx, chosen_idx)), r, w, h) :
                           chosen_idx \in avail}
             ELSE VisitFrom(order, k + 1, [tk EXCEPT ![cell_idx] = TRUE],
                            Append(ps, Record(-1, cell_idx)), r, w, h)

\* What a call of create_spatial_pairs can return on a w x h grid.  Grid and
\* GridWithTracer have the same function body.
create_spatial_pairs(r, w, h) ==
    UNION {VisitFrom(order, 1, [c \in 0..(w * h - 1) |-> FALSE], <<>>, r, w, h) :
             order \in Shuffles(w * h)}

\* The comparison at the end of the loop body: prog1[j] != prog2[j].get_char().
ProgramsMatch(g1, g2) ==
    \A c \in 1..Len(g1) : \A j \in 1..Len(g1[c]) : g1[c][j] = get_char(g2[c][j])

\* main up to the epoch loop: both grids initialised from seed_random(42).
SbsEntry(seed) ==
    [pc |-> "grid1",
     grid1 |-> initialize_random(MAIN_GRID, seed,
                                 SbsGrid.grid_width * SbsGrid.grid_height,
                                 SbsGrid.program_size),
     grid2 |-> initialize_random(MAIN_GRID_W_TRACER, seed,
                                 SbsGrid.grid_width * SbsGrid.grid_height,
                                 SbsGrid.program_size),
     epoch |-> 0, soup1 |-> <<>>, soup2 |-> <<>>, pairs1 |-> <<>>, pairs2 |-> <<>>,
     i |-> 0, rng |-> Generator(<<>>), seeded |-> <<>>,
     pairs_match |-> TRUE, programs_match |-> TRUE, hits1 |-> 0, hits2 |-> 0]

\* seed_random(42 + epoch * 1000); soup1 = grid1.get_all_programs(); pairs1
\* = grid1.create_spatial_pairs(2).  The seed decides what the pairing
\* draws and what the generator yields after it.
SbsBeginGrid1 ==
    /\ sbs.pc = "grid1"
    /\ sbs.epoch < SbsEpochs
    /\ \E ps \in create_spatial_pairs(neighborhood_radius, SbsGrid.grid_width,
                                      SbsGrid.grid_height),
          values \in [1..SbsDraws -> GeneratorValues] :
         sbs' = [sbs EXCEPT !.pc = "loop1", !.soup1 = sbs.grid1, !.pairs1 = ps,
                            !.i = 0, !.rng = Generator(values),
                            !.seeded = [pairs |-> ps, values |-> values]]

\* One iteration of the loop over pairs1.
SbsProcess1 ==
    /\ sbs.pc = "loop1"
    /\ sbs.i < Len(sbs.pairs1)
    /\ LET idx_a == sbs.pairs1[sbs.i + 1].first
           idx_b == sbs.pairs1[sbs.i + 1].second
       IN  IF idx_a = -1
           THEN LET mb == MutatePlain(At(sbs.soup1, idx_b), sbs.rng)
                IN  sbs' = [sbs EXCEPT !.soup1 = Put(@, idx_b, mb.program),
                                       !.rng = mb.rng, !.i = @ + 1,
                                       !.hits1 = @ + mb.hits]
           ELSE LET result == emulate(At(sbs.soup1, idx_a) \o At(sbs.soup1, idx_b),
                                      0, SbsGrid.program_size, 0, default_max_iter)
                    ma == MutatePlain(SubSeq(result.tape, 1, SbsGrid.program_size),
                                      sbs.rng)
                    mb == MutatePlain(SubSeq(result.tape, SbsGrid.program_size + 1,
                                             Len(result.tape)), ma.rng)
                IN  sbs' = [sbs EXCEPT !.soup1 = Put(Put(@, idx_a, ma.program),
                                                     idx_b, mb.program),
                                       !.rng = mb.rng, !.i = @ + 1,
                                       !.hits1 = @ + ma.hits + mb.hits]

\* grid1.set_all_programs(soup1); seed_random(42 + epoch * 1000); soup2 =
\* grid2.get_all_programs(); pairs2 = grid2.create_spatial_pairs(2,
\* get_rng()): the generator is where grid 1 found it.
SbsBeginGrid2 ==
    /\ sbs.pc = "loop1"
    /\ sbs.i = Len(sbs.pairs1)
    /\ sbs' = [sbs EXCEPT !.pc = "loop2", !.grid1 = sbs.soup1, !.soup1 = <<>>,
                          !.soup2 = sbs.grid2, !.pairs2 = sbs.seeded.pairs,
                          !.i = 0, !.rng = Generator(sbs.seeded.values)]

\* One iteration of the loop over pairs2.
SbsProcess2 ==
    /\ sbs.pc = "loop2"
    /\ sbs.i < Len(sbs.pairs2)
    /\ LET idx_a == sbs.pairs2[sbs.i + 1].first
           idx_b == sbs.pairs2[sbs.i + 1].second
       IN  IF idx_a = -1
           THEN LET mb == MutateTokenized(At(sbs.soup2, idx_b), sbs.epoch + 1, sbs.rng)
                IN  sbs' = [sbs EXCEPT !.soup2 = Put(@, idx_b, mb.program),
                                       !.rng = mb.rng, !.i = @ + 1,
                                       !.hits2 = @ + mb.hits]
           ELSE LET result == emulate_w_tracer(At(sbs.soup2, idx_a) \o At(sbs.soup2, idx_b),
                                               0, SbsGrid.program_size, 0,
                                               default_max_iter)
                    ma == MutateTokenized(SubSeq(result.tape, 1, SbsGrid.program_size),
                                          sbs.epoch + 1, sbs.rng)
                    mb == MutateTokenized(SubSeq(result.tape, SbsGrid.program_size + 1,
                                                 Len(result.tape)),
                                          sbs.epoch + 1, ma.rng)
                IN  sbs' = [sbs EXCEPT !.soup2 = Put(Put(@, idx_a, ma.program),
                                                     idx_b, mb.program),
                                       !.rng = mb.rng, !.i = @ + 1,
                                       !.hits2 = @ + ma.hits + mb.hits]

\* grid2.set_all_programs(soup2), the comparison of the two grids and the
\* end of the loop body.
SbsCompare ==
    /\ sbs.pc = "loop2"
    /\ sbs.i = Len(sbs.pairs2)
    /\ sbs' = [sbs EXCEPT !.pc = IF sbs.epoch + 1 < SbsEpochs THEN "grid1" ELSE "done",
                          !.grid2 = sbs.soup2, !.soup2 = <<>>,
                          !.pairs_match = (sbs.pairs1 = sbs.pairs2),
                          !.programs_match = ProgramsMatch(sbs.grid1, sbs.soup2),
                          !.epoch = @ + 1, !.i = 0, !.rng = Generator(<<>>),
                          !.seeded = <<>>]

InitSideBySide ==
    /\ EmuIdle
    /\ PairIdle
    /\ DriverIdle
    /\ ServerIdle
    /\ FpIdle
    /\ \E seed \in SbsSeeds : sbs = SbsEntry(seed)

NextSideBySide ==
    \/ SbsBeginGrid1 /\ UNCHANGED notSbsVars
    \/ SbsProcess1 /\ UNCHANGED notSbsVars
    \/ SbsBeginGrid2 /\ UNCHANGED notSbsVars
    \/ SbsProcess2 /\ UNCHANGED notSbsVars
    \/ SbsCompare /\ UNCHANGED notSbsVars

SpecSideBySide == InitSideBySide /\ [][NextSideBySide]_vars

\* An epoch of the test has ended and the comparison was made.
SbsCompared == sbs.pc \in {"grid1", "done"} /\ sbs.epoch > 0

\* C27: stepped side by side from the same seed per epoch, the plain grid
\* and the tokenized grid have the same pairing sequence and, cell by cell,
\* byte-identical programs after every epoch.
C27_SameAfterEveryEpoch ==
    SbsCompared =>
        /\ sbs.pairs1 = sbs.pairs2
        /\ \A c \in 1..Len(sbs.grid1) : sbs.grid1[c] = tokens_to_bytes(sbs.grid2[c])

\* The pairing sequences are the same after every epoch, and so are the
\* programs as long as neither mutate has replaced a byte.
C27_SameUntilMutation ==
    /\ SbsCompared => sbs.pairs1 = sbs.pairs2 /\ sbs.pairs_match
    /\ (SbsCompared /\ sbs.hits1 + sbs.hits2 = 0) =>
          /\ sbs.programs_match
          /\ \A c \in 1..Len(sbs.grid1) : sbs.grid1[c] = tokens_to_bytes(sbs.grid2[c])

\* The first value of the epoch's generator is less than mutation_rate and
\* the second gives position 1: mutate of utils.cpp has replaced byte 0 of
\* the first program it was given, GridWithTracer::mutate byte 1, and the
\* test reports that the programs differ under the same pairing.
C27_ProgramsDiffer ==
    /\ SbsCompared
    /\ sbs.epoch = 1
    /\ sbs.pairs1 = sbs.pairs2
    /\ sbs.hits1 = 1
    /\ sbs.hits2 = 1
    /\ ~sbs.programs_match
    /\ \E c \in 1..Len(sbs.grid1) : sbs.grid1[c] # tokens_to_bytes(sbs.grid2[c])

\* The generator's first value is not less than mutation_rate and its
\* second is: mutate of utils.cpp has replaced a byte of the first program,
\* GridWithTracer::mutate a byte of the second.
C27_MutatesOtherProgram ==
    /\ SbsCompared
    /\ sbs.epoch = 1
    /\ sbs.hits1 = 1
    /\ sbs.hits2 = 1
    /\ \E c \in 1..Len(sbs.grid1), e \in 1..Len(sbs.grid1) :
         /\ c # e
         /\ sbs.grid1[c] # tokens_to_bytes(sbs.grid2[c])
         /\ sbs.grid1[e] # tokens_to_bytes(sbs.grid2[e])

\* Two epochs without a mutation: the machines have rewritten a program, and
\* the grids agree.
C27_SameWithoutMutation ==
    /\ sbs.pc = "done"
    /\ sbs.hits1 + sbs.hits2 = 0
    /\ sbs.programs_match
    /\ \E c \in 1..Len(sbs.grid1) :
         \A seed \in SbsSeeds : sbs.grid1[c] # SbsEntry(seed).grid1[c]

====
